---- MODULE Spec2Model ----
(***************************************************************************)
(* Model of ffi/src/schema_visitor.rs: KernelSchemaVisitorState, the       *)
(* handle-addressed arena of schema elements, and the visit_schema_*,      *)
(* create_*_type, build_kernel_schema and unwrap_kernel_schema operations  *)
(* that build a kernel schema bottom-up from handles.                      *)
(*                                                                         *)
(* Every *_impl function is an operator from the visitor state             *)
(* st = [elements, next_id] and the call's arguments to                    *)
(* [st |-> the state afterwards, res |-> the DeltaResult returned].        *)
(* An Option<T> is a sequence: << >> is None and <<v>> is Some(v).         *)
(***************************************************************************)
EXTENDS Integers, Sequences, FiniteSets, TLC

VARIABLES
    elements,   \* KernelSchemaVisitorState.elements: handle -> SchemaElement
    next_id,    \* the next handle the ReferenceSet issues
    issued,     \* history: every handle returned by a successful call
    origin,     \* history: live handle -> the call that produced its element
    extracted,  \* history: every handle a successful extraction has taken
    assembled,  \* history: a build_kernel_schema call has succeeded
    other,      \* a second KernelSchemaVisitorState, of another session
    last        \* the call that has just returned: its handle arguments and
                \* its result, until the caller proceeds to its next call

vars == <<elements, next_id, issued, origin, extracted, assembled, other, last>>

(***************************************************************************)
(* Bounds of the model.                                                    *)
(***************************************************************************)
\* Spec explores calls while at most MaxHandle - 1 handles were issued.
MaxHandle == 3
\* Longest list of child handles given to visit_schema_struct and
\* build_kernel_schema.
MaxList == 2

(***************************************************************************)
(* Inputs.                                                                 *)
(***************************************************************************)
\* name: DeltaResult<&str>, the outcome of TryFromStringSlice::try_from_slice.
OkName(s) == [ok |-> TRUE, val |-> s]
ErrName == [ok |-> FALSE, val |-> ""]
Names == {"a", "b"}
NameInputs == {OkName(s) : s \in Names} \cup {ErrName}

\* metadata: HashMap<String, MetadataValue>, a set of <<key, value>> pairs;
\* a missing CStringMap is the empty map (unwrap_or_default).
NoMetadata == {}
MetadataInputs == {NoMetadata, {<<"k", "v">>}}

(***************************************************************************)
(* delta_kernel::schema values.                                            *)
(***************************************************************************)
Primitive(p) == [tag |-> "Primitive", prim |-> p]

\* StructField::new(name, data_type, nullable): empty metadata.
StructField_new(name, data_type, nullable) ==
    [name |-> name, data_type |-> data_type, nullable |-> nullable,
     metadata |-> NoMetadata]

\* StructField::with_metadata
with_metadata(field, metadata) == [field EXCEPT !.metadata = metadata]

\* StructType::new(fields): the ordered sequence of the fields.
StructType_new(field_vec) == field_vec

\* DataType::Struct(Box::new(struct_type))
DataType_Struct(struct_type) == [tag |-> "Struct", fields |-> struct_type]

(***************************************************************************)
(* SchemaElement                                                           *)
(***************************************************************************)
SchemaElement_Field(field) == [kind |-> "Field", field |-> field]
SchemaElement_DataType(data_type) == [kind |-> "DataType", data_type |-> data_type]
SchemaElement_Schema(schema) == [kind |-> "Schema", schema |-> schema]

(***************************************************************************)
(* DeltaResult<usize>                                                      *)
(***************************************************************************)
Ok(id) == [ok |-> TRUE, val |-> id]
\* delta_kernel::Error::generic(format!(msg, id)); the name error carries no id.
Err(msg, id) == [ok |-> FALSE, msg |-> msg, id |-> id]
NameErr == [ok |-> FALSE, msg |-> "name"]

(***************************************************************************)
(* ReferenceSet<SchemaElement>: the handle arena.                          *)
(***************************************************************************)
Live(st) == DOMAIN st.elements

\* ReferenceSet::insert: always succeeds, returns a handle never issued before.
insert(st, element) ==
    [st |-> [elements |-> (st.next_id :> element) @@ st.elements,
             next_id |-> st.next_id + 1],
     id |-> st.next_id]

\* ReferenceSet::take: removes and returns the element of a live handle.
take(st, id) ==
    IF id \in Live(st)
    THEN [st |-> [st EXCEPT !.elements = [h \in Live(st) \ {id} |-> st.elements[h]]],
          val |-> <<st.elements[id]>>]
    ELSE [st |-> st, val |-> << >>]

\* An empty state whose arena issues 0 as its first handle.
EmptyState_zero == [elements |-> << >>, next_id |-> 0]

\* KernelSchemaVisitorState::default()
EmptyState == [elements |-> << >>, next_id |-> 1]

(***************************************************************************)
(* wrap_* and unwrap_* helpers.                                            *)
(***************************************************************************)
\* A wrap_field that files the element under the smallest handle not live.
wrap_field_recycle(st, field) ==
    LET free == CHOOSE h \in 1..st.next_id :
                    h \notin Live(st) /\ \A g \in 1..(h - 1) : g \in Live(st)
    IN  [st |-> [elements |-> (free :> SchemaElement_Field(field)) @@ st.elements,
                 next_id |-> IF free = st.next_id THEN st.next_id + 1 ELSE st.next_id],
         id |-> free]

wrap_field(st, field) == insert(st, SchemaElement_Field(field))

\* A wrap_data_type that files the element under the handle issued last, in
\* place of whatever that handle holds.
wrap_data_type_overwrite(st, data_type) ==
    LET id == IF st.next_id > 1 THEN st.next_id - 1 ELSE st.next_id
    IN  [st |-> [elements |-> (id :> SchemaElement_DataType(data_type)) @@ st.elements,
                 next_id |-> IF id = st.next_id THEN st.next_id + 1 ELSE st.next_id],
         id |-> id]

wrap_data_type(st, data_type) == insert(st, SchemaElement_DataType(data_type))

wrap_schema(st, schema) == insert(st, SchemaElement_Schema(schema))

\* An unwrap_data_type that reads the element and leaves it in the arena.
unwrap_data_type_peek(st, type_id) ==
    IF type_id \notin Live(st) THEN [st |-> st, val |-> << >>]
    ELSE LET e == st.elements[type_id] IN
         CASE e.kind = "DataType" -> [st |-> st, val |-> <<e.data_type>>]
           [] e.kind = "Field"    -> [st |-> st, val |-> <<e.field.data_type>>]
           [] e.kind = "Schema"   -> [st |-> st, val |-> <<DataType_Struct(e.schema)>>]

\* An unwrap_data_type that resolves DataType handles only.
unwrap_data_type_strict(st, type_id) ==
    LET t == take(st, type_id) IN
    IF t.val = << >> THEN [st |-> t.st, val |-> << >>]
    ELSE LET e == t.val[1] IN
         IF e.kind = "DataType" THEN [st |-> t.st, val |-> <<e.data_type>>]
         ELSE [st |-> t.st, val |-> << >>]

unwrap_data_type(st, type_id) ==
    LET t == take(st, type_id) IN
    IF t.val = << >> THEN [st |-> t.st, val |-> << >>]
    ELSE LET e == t.val[1] IN
         CASE e.kind = "DataType" -> [st |-> t.st, val |-> <<e.data_type>>]
           [] e.kind = "Field"    -> [st |-> t.st, val |-> <<e.field.data_type>>]
           [] e.kind = "Schema"   -> [st |-> t.st, val |-> <<DataType_Struct(e.schema)>>]

\* An unwrap_field that makes an unnamed field of a bare DataType.
unwrap_field_lenient(st, field_id) ==
    LET t == take(st, field_id) IN
    IF t.val = << >> THEN [st |-> t.st, val |-> << >>]
    ELSE LET e == t.val[1] IN
         CASE e.kind = "Field" -> [st |-> t.st, val |-> <<e.field>>]
           [] e.kind = "DataType" ->
                  [st |-> t.st, val |-> <<StructField_new("", e.data_type, TRUE)>>]
           [] OTHER -> [st |-> t.st, val |-> << >>]

\* An unwrap_field that reads the field and leaves it in the arena.
unwrap_field_peek(st, field_id) ==
    IF field_id \in Live(st) /\ st.elements[field_id].kind = "Field"
    THEN [st |-> st, val |-> <<st.elements[field_id].field>>]
    ELSE [st |-> st, val |-> << >>]

unwrap_field(st, field_id) ==
    LET t == take(st, field_id) IN
    IF t.val = << >> THEN [st |-> t.st, val |-> << >>]
    ELSE LET e == t.val[1] IN
         IF e.kind = "Field" THEN [st |-> t.st, val |-> <<e.field>>]
         ELSE [st |-> t.st, val |-> << >>]

\* An unwrap_kernel_schema that, once it has the schema, drops every element
\* left in the arena.
unwrap_kernel_schema_clearing(st, schema_id) ==
    LET t == take(st, schema_id) IN
    IF t.val = << >> THEN [st |-> t.st, val |-> << >>]
    ELSE LET e == t.val[1]
             cleared == [t.st EXCEPT !.elements = << >>]
         IN  CASE e.kind = "Schema" -> [st |-> cleared, val |-> <<e.schema>>]
               [] e.kind = "Field"  ->
                      [st |-> cleared, val |-> <<StructType_new(<<e.field>>)>>]
               [] e.kind = "DataType" /\ e.data_type.tag = "Struct" ->
                      [st |-> cleared, val |-> <<e.data_type.fields>>]
               [] OTHER -> [st |-> t.st, val |-> << >>]

\* An unwrap_kernel_schema that also drops the Field elements no call has
\* consumed.
unwrap_kernel_schema_drops_fields(st, schema_id) ==
    LET t == take(st, schema_id)
        rest == {h \in Live(t.st) : t.st.elements[h].kind # "Field"}
        swept == [t.st EXCEPT !.elements = [h \in rest |-> t.st.elements[h]]]
    IN  IF t.val = << >> THEN [st |-> t.st, val |-> << >>]
        ELSE LET e == t.val[1] IN
             CASE e.kind = "Schema" -> [st |-> swept, val |-> <<e.schema>>]
               [] e.kind = "Field"  ->
                      [st |-> swept, val |-> <<StructType_new(<<e.field>>)>>]
               [] e.kind = "DataType" /\ e.data_type.tag = "Struct" ->
                      [st |-> swept, val |-> <<e.data_type.fields>>]
               [] OTHER -> [st |-> t.st, val |-> << >>]

\* An unwrap_kernel_schema that resolves Schema handles only.
unwrap_kernel_schema_strict(st, schema_id) ==
    LET t == take(st, schema_id) IN
    IF t.val = << >> THEN [st |-> t.st, val |-> << >>]
    ELSE LET e == t.val[1] IN
         IF e.kind = "Schema" THEN [st |-> t.st, val |-> <<e.schema>>]
         ELSE [st |-> t.st, val |-> << >>]

\* An unwrap_kernel_schema that reads the element and leaves it in the arena.
unwrap_kernel_schema_peek(st, schema_id) ==
    IF schema_id \notin Live(st) THEN [st |-> st, val |-> << >>]
    ELSE LET e == st.elements[schema_id] IN
         CASE e.kind = "Schema" -> [st |-> st, val |-> <<e.schema>>]
           [] e.kind = "Field"  -> [st |-> st, val |-> <<StructType_new(<<e.field>>)>>]
           [] e.kind = "DataType" /\ e.data_type.tag = "Struct" ->
                  [st |-> st, val |-> <<e.data_type.fields>>]
           [] OTHER -> [st |-> st, val |-> << >>]

unwrap_kernel_schema(st, schema_id) ==
    LET t == take(st, schema_id) IN
    IF t.val = << >> THEN [st |-> t.st, val |-> << >>]
    ELSE LET e == t.val[1] IN
         CASE e.kind = "Schema" -> [st |-> t.st, val |-> <<e.schema>>]
           [] e.kind = "Field"  -> [st |-> t.st, val |-> <<StructType_new(<<e.field>>)>>]
           [] e.kind = "DataType" /\ e.data_type.tag = "Struct" ->
                  [st |-> t.st, val |-> <<e.data_type.fields>>]
           [] OTHER -> [st |-> t.st, val |-> << >>]

(***************************************************************************)
(* Primitive leaves: one visit_schema_<kind>_impl per primitive kind.      *)
(* name? returns the name error before anything is built.                  *)
(***************************************************************************)
visit_schema_string_impl(st, name, nullable, metadata) ==
    IF ~name.ok THEN [st |-> st, res |-> NameErr]
    ELSE LET field == with_metadata(
                          StructField_new(name.val, Primitive("String"), nullable),
                          metadata)
             w == wrap_field(st, field)
         IN  [st |-> w.st, res |-> Ok(w.id)]

visit_schema_long_impl(st, name, nullable, metadata) ==
    IF ~name.ok THEN [st |-> st, res |-> NameErr]
    ELSE LET field == with_metadata(
                          StructField_new(name.val, Primitive("Long"), nullable),
                          metadata)
             w == wrap_field(st, field)
         IN  [st |-> w.st, res |-> Ok(w.id)]

visit_schema_integer_impl(st, name, nullable, metadata) ==
    IF ~name.ok THEN [st |-> st, res |-> NameErr]
    ELSE LET field == with_metadata(
                          StructField_new(name.val, Primitive("Integer"), nullable),
                          metadata)
             w == wrap_field(st, field)
         IN  [st |-> w.st, res |-> Ok(w.id)]

visit_schema_boolean_impl(st, name, nullable, metadata) ==
    IF ~name.ok THEN [st |-> st, res |-> NameErr]
    ELSE LET field == with_metadata(
                          StructField_new(name.val, Primitive("Boolean"), nullable),
                          metadata)
             w == wrap_field(st, field)
         IN  [st |-> w.st, res |-> Ok(w.id)]

visit_schema_double_impl(st, name, nullable, metadata) ==
    IF ~name.ok THEN [st |-> st, res |-> NameErr]
    ELSE LET field == with_metadata(
                          StructField_new(name.val, Primitive("Double"), nullable),
                          metadata)
             w == wrap_field(st, field)
         IN  [st |-> w.st, res |-> Ok(w.id)]

\* A visit_schema_short_impl that builds the field with the Integer type.
visit_schema_short_wide(st, name, nullable, metadata) ==
    IF ~name.ok THEN [st |-> st, res |-> NameErr]
    ELSE LET field == with_metadata(
                          StructField_new(name.val, Primitive("Integer"), nullable),
                          metadata)
             w == wrap_field(st, field)
         IN  [st |-> w.st, res |-> Ok(w.id)]

visit_schema_short_impl(st, name, nullable, metadata) ==
    IF ~name.ok THEN [st |-> st, res |-> NameErr]
    ELSE LET field == with_metadata(
                          StructField_new(name.val, Primitive("Short"), nullable),
                          metadata)
             w == wrap_field(st, field)
         IN  [st |-> w.st, res |-> Ok(w.id)]

visit_schema_byte_impl(st, name, nullable, metadata) ==
    IF ~name.ok THEN [st |-> st, res |-> NameErr]
    ELSE LET field == with_metadata(
                          StructField_new(name.val, Primitive("Byte"), nullable),
                          metadata)
             w == wrap_field(st, field)
         IN  [st |-> w.st, res |-> Ok(w.id)]

visit_schema_float_impl(st, name, nullable, metadata) ==
    IF ~name.ok THEN [st |-> st, res |-> NameErr]
    ELSE LET field == with_metadata(
                          StructField_new(name.val, Primitive("Float"), nullable),
                          metadata)
             w == wrap_field(st, field)
         IN  [st |-> w.st, res |-> Ok(w.id)]

visit_schema_binary_impl(st, name, nullable, metadata) ==
    IF ~name.ok THEN [st |-> st, res |-> NameErr]
    ELSE LET field == with_metadata(
                          StructField_new(name.val, Primitive("Binary"), nullable),
                          metadata)
             w == wrap_field(st, field)
         IN  [st |-> w.st, res |-> Ok(w.id)]

visit_schema_date_impl(st, name, nullable, metadata) ==
    IF ~name.ok THEN [st |-> st, res |-> NameErr]
    ELSE LET field == with_metadata(
                          StructField_new(name.val, Primitive("Date"), nullable),
                          metadata)
             w == wrap_field(st, field)
         IN  [st |-> w.st, res |-> Ok(w.id)]

visit_schema_timestamp_impl(st, name, nullable, metadata) ==
    IF ~name.ok THEN [st |-> st, res |-> NameErr]
    ELSE LET field == with_metadata(
                          StructField_new(name.val, Primitive("Timestamp"), nullable),
                          metadata)
             w == wrap_field(st, field)
         IN  [st |-> w.st, res |-> Ok(w.id)]

visit_schema_timestamp_ntz_impl(st, name, nullable, metadata) ==
    IF ~name.ok THEN [st |-> st, res |-> NameErr]
    ELSE LET field == with_metadata(
                          StructField_new(name.val, Primitive("TimestampNtz"), nullable),
                          metadata)
             w == wrap_field(st, field)
         IN  [st |-> w.st, res |-> Ok(w.id)]

(***************************************************************************)
(* Complex types.                                                          *)
(***************************************************************************)
\* The loop of visit_schema_struct_impl over field_ids, from position i on:
\* every handle is taken with unwrap_field as it is reached, and the first one
\* that yields no field ends the call.
RECURSIVE struct_fields(_, _, _, _)
struct_fields(st, field_ids, i, field_vec) ==
    IF i > Len(field_ids)
    THEN [st |-> st, ok |-> TRUE, field_vec |-> field_vec]
    ELSE LET u == unwrap_field(st, field_ids[i]) IN
         IF u.val # << >>
         THEN struct_fields(u.st, field_ids, i + 1, Append(field_vec, u.val[1]))
         ELSE [st |-> u.st, ok |-> FALSE, id |-> field_ids[i], field_vec |-> field_vec]

\* The sequence s back to front.
Reversed(s) == [i \in 1..Len(s) |-> s[Len(s) + 1 - i]]

\* A visit_schema_struct_impl that, when a handle fails to resolve, still
\* inserts a struct of the fields collected so far before it returns the error.
visit_schema_struct_partial(st, name, field_ids, nullable, metadata) ==
    IF ~name.ok THEN [st |-> st, res |-> NameErr]
    ELSE LET l == struct_fields(st, field_ids, 1, << >>)
             field == with_metadata(
                          StructField_new(name.val,
                              DataType_Struct(StructType_new(l.field_vec)), nullable),
                          metadata)
             w == wrap_field(l.st, field)
         IN  IF ~l.ok
             THEN [st |-> w.st, res |-> Err("Invalid field ID in struct", l.id)]
             ELSE [st |-> w.st, res |-> Ok(w.id)]

\* A visit_schema_struct_impl that lists the fields last-taken first.
visit_schema_struct_reversed(st, name, field_ids, nullable, metadata) ==
    IF ~name.ok THEN [st |-> st, res |-> NameErr]
    ELSE LET l == struct_fields(st, field_ids, 1, << >>) IN
         IF ~l.ok
         THEN [st |-> l.st, res |-> Err("Invalid field ID in struct", l.id)]
         ELSE LET field == with_metadata(
                               StructField_new(name.val,
                                   DataType_Struct(StructType_new(Reversed(l.field_vec))),
                                   nullable),
                               metadata)
                  w == wrap_field(l.st, field)
              IN  [st |-> w.st, res |-> Ok(w.id)]

\* A visit_schema_struct_impl that refuses a struct without fields.
visit_schema_struct_nonempty(st, name, field_ids, nullable, metadata) ==
    IF ~name.ok THEN [st |-> st, res |-> NameErr]
    ELSE IF field_ids = << >>
         THEN [st |-> st, res |-> Err("Invalid field ID in struct", 0)]
         ELSE LET l == struct_fields(st, field_ids, 1, << >>) IN
              IF ~l.ok
              THEN [st |-> l.st, res |-> Err("Invalid field ID in struct", l.id)]
              ELSE LET struct_type == StructType_new(l.field_vec)
                       data_type == DataType_Struct(struct_type)
                       field == with_metadata(
                                    StructField_new(name.val, data_type, nullable),
                                    metadata)
                       w == wrap_field(l.st, field)
                   IN  [st |-> w.st, res |-> Ok(w.id)]

visit_schema_struct_impl(st, name, field_ids, nullable, metadata) ==
    IF ~name.ok THEN [st |-> st, res |-> NameErr]
    ELSE LET l == struct_fields(st, field_ids, 1, << >>) IN
         IF ~l.ok
         THEN [st |-> l.st, res |-> Err("Invalid field ID in struct", l.id)]
         ELSE LET struct_type == StructType_new(l.field_vec)
                  data_type == DataType_Struct(struct_type)
                  field == with_metadata(
                               StructField_new(name.val, data_type, nullable), metadata)
                  w == wrap_field(l.st, field)
              IN  [st |-> w.st, res |-> Ok(w.id)]

\* A visit_schema_array_impl that takes the element type before it looks at
\* the name.
visit_schema_array_child_first(st, name, element_type_id, contains_null, nullable, metadata) ==
    LET u == unwrap_data_type(st, element_type_id) IN
    IF ~name.ok THEN [st |-> u.st, res |-> NameErr]
    ELSE IF u.val = << >>
         THEN [st |-> u.st, res |-> Err("Invalid element type ID for array", element_type_id)]
         ELSE LET array_type == [type_name |-> "array", element_type |-> u.val[1],
                                 contains_null |-> contains_null]
                  field == with_metadata(
                               StructField_new(name.val,
                                   [tag |-> "Array", array |-> array_type], nullable),
                               metadata)
                  w == wrap_field(u.st, field)
              IN  [st |-> w.st, res |-> Ok(w.id)]

visit_schema_array_impl(st, name, element_type_id, contains_null, nullable, metadata) ==
    IF ~name.ok THEN [st |-> st, res |-> NameErr]
    ELSE LET u == unwrap_data_type(st, element_type_id) IN
         IF u.val = << >>
         THEN [st |-> u.st, res |-> Err("Invalid element type ID for array", element_type_id)]
         ELSE LET array_type == [type_name |-> "array", element_type |-> u.val[1],
                                 contains_null |-> contains_null]
                  field == with_metadata(
                               StructField_new(name.val,
                                   [tag |-> "Array", array |-> array_type], nullable),
                               metadata)
                  w == wrap_field(u.st, field)
              IN  [st |-> w.st, res |-> Ok(w.id)]

\* A visit_schema_map_impl that stores the key type as the value type and the
\* value type as the key type.
visit_schema_map_swapped(st, name, key_type_id, value_type_id, value_contains_null, nullable, metadata) ==
    IF ~name.ok THEN [st |-> st, res |-> NameErr]
    ELSE LET k == unwrap_data_type(st, key_type_id) IN
         IF k.val = << >>
         THEN [st |-> k.st, res |-> Err("Invalid key type ID for map", key_type_id)]
         ELSE LET v == unwrap_data_type(k.st, value_type_id) IN
              IF v.val = << >>
              THEN [st |-> v.st,
                    res |-> Err("Invalid value type ID for map", value_type_id)]
              ELSE LET map_type == [type_name |-> "map", key_type |-> v.val[1],
                                    value_type |-> k.val[1],
                                    value_contains_null |-> value_contains_null]
                       field == with_metadata(
                                    StructField_new(name.val,
                                        [tag |-> "Map", map |-> map_type], nullable),
                                    metadata)
                       w == wrap_field(v.st, field)
                   IN  [st |-> w.st, res |-> Ok(w.id)]

\* A visit_schema_map_impl that reads the value type and leaves its handle in
\* the arena.
visit_schema_map_keeps_value(st, name, key_type_id, value_type_id, value_contains_null, nullable, metadata) ==
    IF ~name.ok THEN [st |-> st, res |-> NameErr]
    ELSE LET k == unwrap_data_type(st, key_type_id) IN
         IF k.val = << >>
         THEN [st |-> k.st, res |-> Err("Invalid key type ID for map", key_type_id)]
         ELSE LET v == unwrap_data_type_peek(k.st, value_type_id) IN
              IF v.val = << >>
              THEN [st |-> v.st,
                    res |-> Err("Invalid value type ID for map", value_type_id)]
              ELSE LET map_type == [type_name |-> "map", key_type |-> k.val[1],
                                    value_type |-> v.val[1],
                                    value_contains_null |-> value_contains_null]
                       field == with_metadata(
                                    StructField_new(name.val,
                                        [tag |-> "Map", map |-> map_type], nullable),
                                    metadata)
                       w == wrap_field(v.st, field)
                   IN  [st |-> w.st, res |-> Ok(w.id)]

\* A visit_schema_map_impl that resolves the value type in the arena as it was
\* before the key type was taken.
visit_schema_map_same_view(st, name, key_type_id, value_type_id, value_contains_null, nullable, metadata) ==
    IF ~name.ok THEN [st |-> st, res |-> NameErr]
    ELSE LET k == unwrap_data_type(st, key_type_id) IN
         IF k.val = << >>
         THEN [st |-> k.st, res |-> Err("Invalid key type ID for map", key_type_id)]
         ELSE LET v == unwrap_data_type(st, value_type_id) IN
              IF v.val = << >>
              THEN [st |-> k.st,
                    res |-> Err("Invalid value type ID for map", value_type_id)]
              ELSE LET map_type == [type_name |-> "map", key_type |-> k.val[1],
                                    value_type |-> v.val[1],
                                    value_contains_null |-> value_contains_null]
                       field == with_metadata(
                                    StructField_new(name.val,
                                        [tag |-> "Map", map |-> map_type], nullable),
                                    metadata)
                       w == wrap_field(take(k.st, value_type_id).st, field)
                   IN  [st |-> w.st, res |-> Ok(w.id)]

visit_schema_map_impl(st, name, key_type_id, value_type_id, value_contains_null, nullable, metadata) ==
    IF ~name.ok THEN [st |-> st, res |-> NameErr]
    ELSE LET k == unwrap_data_type(st, key_type_id) IN
         IF k.val = << >>
         THEN [st |-> k.st, res |-> Err("Invalid key type ID for map", key_type_id)]
         ELSE LET v == unwrap_data_type(k.st, value_type_id) IN
              IF v.val = << >>
              THEN [st |-> v.st,
                    res |-> Err("Invalid value type ID for map", value_type_id)]
              ELSE LET map_type == [type_name |-> "map", key_type |-> k.val[1],
                                    value_type |-> v.val[1],
                                    value_contains_null |-> value_contains_null]
                       field == with_metadata(
                                    StructField_new(name.val,
                                        [tag |-> "Map", map |-> map_type], nullable),
                                    metadata)
                       w == wrap_field(v.st, field)
                   IN  [st |-> w.st, res |-> Ok(w.id)]

\* A visit_schema_variant_impl that also accepts a Field whose type is a
\* struct.
visit_schema_variant_lenient(st, name, variant_struct_id, nullable, metadata) ==
    IF ~name.ok THEN [st |-> st, res |-> NameErr]
    ELSE LET u == unwrap_data_type(st, variant_struct_id) IN
         IF u.val = << >> \/ u.val[1].tag # "Struct"
         THEN [st |-> u.st,
               res |-> Err("Invalid variant struct ID - must be Schema or Struct DataType",
                           variant_struct_id)]
         ELSE LET field == with_metadata(
                               StructField_new(name.val,
                                   [tag |-> "Variant", fields |-> u.val[1].fields],
                                   nullable),
                               metadata)
                  w == wrap_field(u.st, field)
              IN  [st |-> w.st, res |-> Ok(w.id)]

visit_schema_variant_impl(st, name, variant_struct_id, nullable, metadata) ==
    IF ~name.ok THEN [st |-> st, res |-> NameErr]
    ELSE LET t == take(st, variant_struct_id)
             e == t.val[1]
             isSchema == t.val # << >> /\ e.kind = "Schema"
             isStruct == t.val # << >> /\ e.kind = "DataType"
                             /\ e.data_type.tag = "Struct"
         IN  IF ~(isSchema \/ isStruct)
             THEN [st |-> t.st,
                   res |-> Err("Invalid variant struct ID - must be Schema or Struct DataType",
                               variant_struct_id)]
             ELSE LET variant_struct == IF isSchema THEN e.schema ELSE e.data_type.fields
                      field == with_metadata(
                                   StructField_new(name.val,
                                       [tag |-> "Variant", fields |-> variant_struct],
                                       nullable),
                                   metadata)
                      w == wrap_field(t.st, field)
                  IN  [st |-> w.st, res |-> Ok(w.id)]

(***************************************************************************)
(* Schema building.                                                        *)
(***************************************************************************)
\* The loop of build_kernel_schema_impl over field_ids, from position i on.
RECURSIVE schema_fields(_, _, _, _)
schema_fields(st, field_ids, i, field_vec) ==
    IF i > Len(field_ids)
    THEN [st |-> st, ok |-> TRUE, field_vec |-> field_vec]
    ELSE LET u == unwrap_field(st, field_ids[i]) IN
         IF u.val # << >>
         THEN schema_fields(u.st, field_ids, i + 1, Append(field_vec, u.val[1]))
         ELSE [st |-> u.st, ok |-> FALSE, id |-> field_ids[i], field_vec |-> field_vec]

\* A build_kernel_schema_impl whose error names the last handle of the list.
build_kernel_schema_blames_last(st, field_ids) ==
    LET l == schema_fields(st, field_ids, 1, << >>) IN
    IF ~l.ok
    THEN [st |-> l.st,
          res |-> Err("Invalid field ID in schema", field_ids[Len(field_ids)])]
    ELSE LET schema == StructType_new(l.field_vec)
             w == wrap_schema(l.st, schema)
         IN  [st |-> w.st, res |-> Ok(w.id)]

\* A build_kernel_schema_impl that lists the fields last-taken first.
build_kernel_schema_reversed(st, field_ids) ==
    LET l == schema_fields(st, field_ids, 1, << >>) IN
    IF ~l.ok
    THEN [st |-> l.st, res |-> Err("Invalid field ID in schema", l.id)]
    ELSE LET w == wrap_schema(l.st, StructType_new(Reversed(l.field_vec)))
         IN  [st |-> w.st, res |-> Ok(w.id)]

\* A build_kernel_schema_impl that inserts the assembled struct as a bare
\* DataType.
build_kernel_schema_bare_struct(st, field_ids) ==
    LET l == schema_fields(st, field_ids, 1, << >>) IN
    IF ~l.ok
    THEN [st |-> l.st, res |-> Err("Invalid field ID in schema", l.id)]
    ELSE LET schema == StructType_new(l.field_vec)
             w == wrap_data_type(l.st, DataType_Struct(schema))
         IN  [st |-> w.st, res |-> Ok(w.id)]

build_kernel_schema_impl(st, field_ids) ==
    LET l == schema_fields(st, field_ids, 1, << >>) IN
    IF ~l.ok
    THEN [st |-> l.st, res |-> Err("Invalid field ID in schema", l.id)]
    ELSE LET schema == StructType_new(l.field_vec)
             w == wrap_schema(l.st, schema)
         IN  [st |-> w.st, res |-> Ok(w.id)]

(***************************************************************************)
(* Type-only building.                                                     *)
(***************************************************************************)
\* A match on the type code with the arms of Integer and Short exchanged.
PrimitiveOfCode_exchanged(primitive_type) ==
    CASE primitive_type = 0  -> <<Primitive("String")>>
      [] primitive_type = 1  -> <<Primitive("Long")>>
      [] primitive_type = 2  -> <<Primitive("Short")>>
      [] primitive_type = 3  -> <<Primitive("Integer")>>
      [] primitive_type = 4  -> <<Primitive("Byte")>>
      [] primitive_type = 5  -> <<Primitive("Float")>>
      [] primitive_type = 6  -> <<Primitive("Double")>>
      [] primitive_type = 7  -> <<Primitive("Boolean")>>
      [] primitive_type = 8  -> <<Primitive("Binary")>>
      [] primitive_type = 9  -> <<Primitive("Date")>>
      [] primitive_type = 10 -> <<Primitive("Timestamp")>>
      [] primitive_type = 11 -> <<Primitive("TimestampNtz")>>
      [] OTHER -> << >>

\* The match of create_primitive_type_impl on the u8 type code.
PrimitiveOfCode(primitive_type) ==
    CASE primitive_type = 0  -> <<Primitive("String")>>
      [] primitive_type = 1  -> <<Primitive("Long")>>
      [] primitive_type = 2  -> <<Primitive("Integer")>>
      [] primitive_type = 3  -> <<Primitive("Short")>>
      [] primitive_type = 4  -> <<Primitive("Byte")>>
      [] primitive_type = 5  -> <<Primitive("Float")>>
      [] primitive_type = 6  -> <<Primitive("Double")>>
      [] primitive_type = 7  -> <<Primitive("Boolean")>>
      [] primitive_type = 8  -> <<Primitive("Binary")>>
      [] primitive_type = 9  -> <<Primitive("Date")>>
      [] primitive_type = 10 -> <<Primitive("Timestamp")>>
      [] primitive_type = 11 -> <<Primitive("TimestampNtz")>>
      [] OTHER -> << >>

create_primitive_type_impl(st, primitive_type) ==
    LET data_type == PrimitiveOfCode(primitive_type) IN
    IF data_type = << >>
    THEN [st |-> st, res |-> Err("Invalid primitive type ID", primitive_type)]
    ELSE LET w == wrap_data_type(st, data_type[1])
         IN  [st |-> w.st, res |-> Ok(w.id)]

\* DecimalType::try_new(precision, scale): the decimal type, if the pair is
\* legal (1 <= precision <= MaxDecimalPrecision and scale <= precision).
MaxDecimalPrecision == 38
DecimalType_try_new(precision, scale) ==
    IF 1 <= precision /\ precision <= MaxDecimalPrecision /\ scale <= precision
    THEN <<[precision |-> precision, scale |-> scale]>>
    ELSE << >>

\* A conversion of the scale that drops its sign.
AsU8_magnitude(scale) == IF scale < 0 THEN 0 - scale ELSE scale

\* scale as u8, for scale: i8
AsU8(scale) == scale % 256

DecimalErr == [ok |-> FALSE, msg |-> "Invalid decimal type precision/scale"]

Decimal(decimal_type) ==
    [tag |-> "Primitive", prim |-> "Decimal", decimal |-> decimal_type]

visit_schema_decimal_impl(st, name, precision, scale, nullable, metadata) ==
    IF ~name.ok THEN [st |-> st, res |-> NameErr]
    ELSE LET decimal_type == DecimalType_try_new(precision, AsU8(scale)) IN
         IF decimal_type = << >> THEN [st |-> st, res |-> DecimalErr]
         ELSE LET field == with_metadata(
                               StructField_new(name.val, Decimal(decimal_type[1]),
                                               nullable),
                               metadata)
                  w == wrap_field(st, field)
              IN  [st |-> w.st, res |-> Ok(w.id)]

\* A create_decimal_type_impl that validates the scale as the signed byte it
\* was given.
create_decimal_type_signed(st, precision, scale) ==
    LET decimal_type == DecimalType_try_new(precision, scale) IN
    IF decimal_type = << >> THEN [st |-> st, res |-> DecimalErr]
    ELSE LET w == wrap_data_type(st, Decimal(decimal_type[1]))
         IN  [st |-> w.st, res |-> Ok(w.id)]

create_decimal_type_impl(st, precision, scale) ==
    LET decimal_type == DecimalType_try_new(precision, AsU8(scale)) IN
    IF decimal_type = << >> THEN [st |-> st, res |-> DecimalErr]
    ELSE LET w == wrap_data_type(st, Decimal(decimal_type[1]))
         IN  [st |-> w.st, res |-> Ok(w.id)]

(***************************************************************************)
(* The state machine: one action per exported operation. A call is a step  *)
(* from the visitor state to the state its _impl leaves, and the history   *)
(* variables record the call.                                              *)
(***************************************************************************)
State == [elements |-> elements, next_id |-> next_id]

\* Handles a caller may pass: every handle issued so far, and next_id, a
\* handle no call has returned yet.
HandleInputs == 1..next_id

IdLists == UNION {[1..n -> HandleInputs] : n \in 0..MaxList}

\* What the caller knows of the element behind each handle it passes.
NoOrigin == [call |-> "none"]
OriginOf(id) == IF id \in DOMAIN origin THEN origin[id] ELSE NoOrigin
Kids(ids) == [i \in 1..Len(ids) |-> OriginOf(ids[i])]

\* The fields behind the handles of ids, for the handles that hold a field.
IsField(id) == id \in DOMAIN elements /\ elements[id].kind = "Field"
FieldsOf(ids) ==
    [i \in 1..Len(ids) |-> IF IsField(ids[i]) THEN <<elements[ids[i]].field>> ELSE << >>]

\* No call has returned since the caller last proceeded.
NoCall == [call |-> "none", ids |-> << >>, res |-> [ok |-> TRUE, val |-> 0]]

\* The state after a call of an operation that returns a handle: r is what
\* its _impl gives.
Returns(r, tree) ==
    /\ last = NoCall
    /\ elements' = r.st.elements
    /\ next_id' = r.st.next_id
    /\ issued' = IF r.res.ok THEN issued \cup {r.res.val} ELSE issued
    /\ origin' = [h \in DOMAIN r.st.elements |->
                     IF r.res.ok /\ h = r.res.val THEN tree ELSE OriginOf(h)]
    /\ extracted' = extracted
    /\ assembled' = (assembled \/ (r.res.ok /\ tree.call = "build_kernel_schema"))
    /\ other' = other

\* A call of an operation that returns a handle.
Call(call, ids, r, tree) ==
    /\ Returns(r, tree)
    /\ last' = [call |-> call, ids |-> ids, res |-> r.res]

\* The kind of element the handle holds, "none" for a handle that is not live.
KindOf(id) == IF id \in DOMAIN elements THEN elements[id].kind ELSE "none"

\* A call of visit_schema_struct or build_kernel_schema: when the call fails
\* on a handle, the kind of element that handle held when the call was made
\* is kept with the result.
ListCall(call, field_ids, r, tree) ==
    /\ Returns(r, tree)
    /\ last' = [call |-> call, ids |-> field_ids, res |-> r.res,
                held |-> IF r.res.ok \/ r.res = NameErr THEN "none"
                         ELSE KindOf(r.res.id)]

\* A call of a decimal operation: the precision and scale it was given are
\* kept with its result.
DecimalCall(call, precision, scale, r, tree) ==
    /\ Returns(r, tree)
    /\ last' = [call |-> call, ids |-> << >>, res |-> r.res,
                precision |-> precision, scale |-> scale]

LeafTree(call, name, nullable, metadata) ==
    [call |-> call, name |-> name.val, nullable |-> nullable, metadata |-> metadata]

visit_schema_string(L, N, B, M) ==
    \E name \in N, nullable \in B, metadata \in M :
        /\ next_id <= L
        /\ Call("visit_schema_string", << >>,
                visit_schema_string_impl(State, name, nullable, metadata),
                LeafTree("visit_schema_string", name, nullable, metadata))

visit_schema_long(L, N, B, M) ==
    \E name \in N, nullable \in B, metadata \in M :
        /\ next_id <= L
        /\ Call("visit_schema_long", << >>,
                visit_schema_long_impl(State, name, nullable, metadata),
                LeafTree("visit_schema_long", name, nullable, metadata))

visit_schema_integer(L, N, B, M) ==
    \E name \in N, nullable \in B, metadata \in M :
        /\ next_id <= L
        /\ Call("visit_schema_integer", << >>,
                visit_schema_integer_impl(State, name, nullable, metadata),
                LeafTree("visit_schema_integer", name, nullable, metadata))

visit_schema_boolean(L, N, B, M) ==
    \E name \in N, nullable \in B, metadata \in M :
        /\ next_id <= L
        /\ Call("visit_schema_boolean", << >>,
                visit_schema_boolean_impl(State, name, nullable, metadata),
                LeafTree("visit_schema_boolean", name, nullable, metadata))

visit_schema_double(L, N, B, M) ==
    \E name \in N, nullable \in B, metadata \in M :
        /\ next_id <= L
        /\ Call("visit_schema_double", << >>,
                visit_schema_double_impl(State, name, nullable, metadata),
                LeafTree("visit_schema_double", name, nullable, metadata))

visit_schema_short(L, N, B, M) ==
    \E name \in N, nullable \in B, metadata \in M :
        /\ next_id <= L
        /\ Call("visit_schema_short", << >>,
                visit_schema_short_impl(State, name, nullable, metadata),
                LeafTree("visit_schema_short", name, nullable, metadata))

visit_schema_byte(L, N, B, M) ==
    \E name \in N, nullable \in B, metadata \in M :
        /\ next_id <= L
        /\ Call("visit_schema_byte", << >>,
                visit_schema_byte_impl(State, name, nullable, metadata),
                LeafTree("visit_schema_byte", name, nullable, metadata))

visit_schema_float(L, N, B, M) ==
    \E name \in N, nullable \in B, metadata \in M :
        /\ next_id <= L
        /\ Call("visit_schema_float", << >>,
                visit_schema_float_impl(State, name, nullable, metadata),
                LeafTree("visit_schema_float", name, nullable, metadata))

visit_schema_binary(L, N, B, M) ==
    \E name \in N, nullable \in B, metadata \in M :
        /\ next_id <= L
        /\ Call("visit_schema_binary", << >>,
                visit_schema_binary_impl(State, name, nullable, metadata),
                LeafTree("visit_schema_binary", name, nullable, metadata))

visit_schema_date(L, N, B, M) ==
    \E name \in N, nullable \in B, metadata \in M :
        /\ next_id <= L
        /\ Call("visit_schema_date", << >>,
                visit_schema_date_impl(State, name, nullable, metadata),
                LeafTree("visit_schema_date", name, nullable, metadata))

visit_schema_timestamp(L, N, B, M) ==
    \E name \in N, nullable \in B, metadata \in M :
        /\ next_id <= L
        /\ Call("visit_schema_timestamp", << >>,
                visit_schema_timestamp_impl(State, name, nullable, metadata),
                LeafTree("visit_schema_timestamp", name, nullable, metadata))

visit_schema_timestamp_ntz(L, N, B, M) ==
    \E name \in N, nullable \in B, metadata \in M :
        /\ next_id <= L
        /\ Call("visit_schema_timestamp_ntz", << >>,
                visit_schema_timestamp_ntz_impl(State, name, nullable, metadata),
                LeafTree("visit_schema_timestamp_ntz", name, nullable, metadata))

visit_schema_struct(L, N, B, M) ==
    \E name \in N, field_ids \in IdLists, nullable \in B, metadata \in M :
        /\ next_id <= L
        /\ ListCall("visit_schema_struct", field_ids,
                visit_schema_struct_impl(State, name, field_ids, nullable, metadata),
                [call |-> "visit_schema_struct", name |-> name.val,
                 nullable |-> nullable, metadata |-> metadata,
                 ids |-> field_ids, kids |-> Kids(field_ids),
                 fields |-> FieldsOf(field_ids)])

visit_schema_array(L, N, B, M) ==
    \E name \in N, element_type_id \in HandleInputs, contains_null \in B,
       nullable \in B, metadata \in M :
        /\ next_id <= L
        /\ Call("visit_schema_array", <<element_type_id>>,
                visit_schema_array_impl(State, name, element_type_id, contains_null,
                                        nullable, metadata),
                [call |-> "visit_schema_array", name |-> name.val,
                 contains_null |-> contains_null, nullable |-> nullable,
                 metadata |-> metadata, ids |-> <<element_type_id>>,
                 kids |-> Kids(<<element_type_id>>)])

visit_schema_map(L, N, B, M) ==
    \E name \in N, key_type_id \in HandleInputs, value_type_id \in HandleInputs,
       value_contains_null \in B, nullable \in B, metadata \in M :
        /\ next_id <= L
        /\ Call("visit_schema_map", <<key_type_id, value_type_id>>,
                visit_schema_map_impl(State, name, key_type_id, value_type_id,
                                      value_contains_null, nullable, metadata),
                [call |-> "visit_schema_map", name |-> name.val,
                 value_contains_null |-> value_contains_null, nullable |-> nullable,
                 metadata |-> metadata, ids |-> <<key_type_id, value_type_id>>,
                 kids |-> Kids(<<key_type_id, value_type_id>>)])

visit_schema_variant(L, N, B, M) ==
    \E name \in N, variant_struct_id \in HandleInputs, nullable \in B,
       metadata \in M :
        /\ next_id <= L
        /\ Call("visit_schema_variant", <<variant_struct_id>>,
                visit_schema_variant_impl(State, name, variant_struct_id, nullable,
                                          metadata),
                [call |-> "visit_schema_variant", name |-> name.val,
                 nullable |-> nullable, metadata |-> metadata,
                 ids |-> <<variant_struct_id>>, kids |-> Kids(<<variant_struct_id>>)])

build_kernel_schema(L) ==
    \E field_ids \in IdLists :
        /\ next_id <= L
        /\ ListCall("build_kernel_schema", field_ids,
                build_kernel_schema_impl(State, field_ids),
                [call |-> "build_kernel_schema", ids |-> field_ids,
                 kids |-> Kids(field_ids), fields |-> FieldsOf(field_ids)])

create_primitive_type(L, Codes) ==
    \E primitive_type \in Codes :
        /\ next_id <= L
        /\ Call("create_primitive_type", << >>,
                create_primitive_type_impl(State, primitive_type),
                [call |-> "create_primitive_type", primitive_type |-> primitive_type])

visit_schema_decimal(L, N, P, S, B, M) ==
    \E name \in N, precision \in P, scale \in S, nullable \in B, metadata \in M :
        /\ next_id <= L
        /\ DecimalCall("visit_schema_decimal", precision, scale,
                visit_schema_decimal_impl(State, name, precision, scale, nullable,
                                          metadata),
                [call |-> "visit_schema_decimal", name |-> name.val,
                 precision |-> precision, scale |-> scale, nullable |-> nullable,
                 metadata |-> metadata])

create_decimal_type(L, P, S) ==
    \E precision \in P, scale \in S :
        /\ next_id <= L
        /\ DecimalCall("create_decimal_type", precision, scale,
                create_decimal_type_impl(State, precision, scale),
                [call |-> "create_decimal_type", precision |-> precision,
                 scale |-> scale])

\* Extraction returns an Option<StructType> and no handle.
extract_schema ==
    \E schema_id \in HandleInputs :
        LET r == unwrap_kernel_schema(State, schema_id) IN
        /\ last = NoCall
        /\ elements' = r.st.elements
        /\ next_id' = r.st.next_id
        /\ issued' = issued
        /\ origin' = [h \in DOMAIN r.st.elements |-> OriginOf(h)]
        /\ extracted' = IF r.val # << >> THEN extracted \cup {schema_id} ELSE extracted
        /\ assembled' = assembled
        /\ other' = other
        /\ last' = [call |-> "unwrap_kernel_schema", ids |-> <<schema_id>>,
                    res |-> [ok |-> r.val # << >>, out |-> r.val],
                    from |-> OriginOf(schema_id)]

\* A visit_schema_string call on the second visitor state: the same function,
\* given the other session's state.
visit_schema_string_other(L, N, B, M) ==
    \E name \in N, nullable \in B, metadata \in M :
        /\ last = NoCall
        /\ other.next_id <= L
        /\ other' = visit_schema_string_impl(other, name, nullable, metadata).st
        /\ other' # other
        /\ UNCHANGED <<elements, next_id, issued, origin, extracted, assembled, last>>

\* The caller has read the result of the call and goes on to its next call.
Proceed ==
    /\ last # NoCall
    /\ last' = NoCall
    /\ UNCHANGED <<elements, next_id, issued, origin, extracted, assembled, other>>

Init ==
    /\ elements = EmptyState.elements
    /\ next_id = EmptyState.next_id
    /\ issued = {}
    /\ origin = << >>
    /\ extracted = {}
    /\ assembled = FALSE
    /\ other = EmptyState
    /\ last = NoCall

(***************************************************************************)
(* Spec: the arena under every kind of operation. The String leaf with    *)
(* both nullability flags, three type codes (one of them invalid) and one  *)
(* valid name feed the operations that consume handles.                    *)
(***************************************************************************)
ArenaNames == {OkName("a"), ErrName}
ArenaFlags == {FALSE}
ArenaMetadata == {NoMetadata}
ArenaCodes == {0, 6, 12}

Next ==
    \/ visit_schema_string(MaxHandle, ArenaNames, BOOLEAN, ArenaMetadata)
    \/ create_primitive_type(MaxHandle, ArenaCodes)
    \/ visit_schema_struct(MaxHandle, ArenaNames, ArenaFlags, ArenaMetadata)
    \/ visit_schema_array(MaxHandle, ArenaNames, ArenaFlags, ArenaMetadata)
    \/ visit_schema_map(MaxHandle, ArenaNames, ArenaFlags, ArenaMetadata)
    \/ visit_schema_variant(MaxHandle, ArenaNames, ArenaFlags, ArenaMetadata)
    \/ build_kernel_schema(MaxHandle)
    \/ extract_schema
    \/ Proceed

Spec == Init /\ [][Next]_vars

(***************************************************************************)
(* SpecLeaf: every primitive leaf, with two valid names and both           *)
(* nullability flags, followed by assembly and extraction.                 *)
(***************************************************************************)
\* SpecLeaf explores calls while at most MaxLeafHandle - 1 handles were issued.
MaxLeafHandle == 2
LeafNames == NameInputs
LeafMetadata == {NoMetadata}

NextLeaf ==
    \/ visit_schema_string(MaxLeafHandle, LeafNames, BOOLEAN, LeafMetadata)
    \/ visit_schema_long(MaxLeafHandle, LeafNames, BOOLEAN, LeafMetadata)
    \/ visit_schema_integer(MaxLeafHandle, LeafNames, BOOLEAN, LeafMetadata)
    \/ visit_schema_boolean(MaxLeafHandle, LeafNames, BOOLEAN, LeafMetadata)
    \/ visit_schema_double(MaxLeafHandle, LeafNames, BOOLEAN, LeafMetadata)
    \/ visit_schema_short(MaxLeafHandle, LeafNames, BOOLEAN, LeafMetadata)
    \/ visit_schema_byte(MaxLeafHandle, LeafNames, BOOLEAN, LeafMetadata)
    \/ visit_schema_float(MaxLeafHandle, LeafNames, BOOLEAN, LeafMetadata)
    \/ visit_schema_binary(MaxLeafHandle, LeafNames, BOOLEAN, LeafMetadata)
    \/ visit_schema_date(MaxLeafHandle, LeafNames, BOOLEAN, LeafMetadata)
    \/ visit_schema_timestamp(MaxLeafHandle, LeafNames, BOOLEAN, LeafMetadata)
    \/ visit_schema_timestamp_ntz(MaxLeafHandle, LeafNames, BOOLEAN, LeafMetadata)
    \/ build_kernel_schema(MaxLeafHandle)
    \/ extract_schema
    \/ Proceed

SpecLeaf == Init /\ [][NextLeaf]_vars

(***************************************************************************)
(* SpecAll: every operation of the interface, each with one valid and one  *)
(* invalid input of every kind it validates.                               *)
(***************************************************************************)
\* SpecAll explores calls while at most MaxAllHandle - 1 handles were issued.
MaxAllHandle == 2
AllNames == {OkName("a"), ErrName}
AllFlags == {FALSE}
AllMetadata == {NoMetadata}
AllCodes == {0, 12}
AllPrecisions == {0, 10}
AllScales == {2}

NextAll ==
    \/ visit_schema_string(MaxAllHandle, AllNames, AllFlags, AllMetadata)
    \/ visit_schema_long(MaxAllHandle, AllNames, AllFlags, AllMetadata)
    \/ visit_schema_integer(MaxAllHandle, AllNames, AllFlags, AllMetadata)
    \/ visit_schema_boolean(MaxAllHandle, AllNames, AllFlags, AllMetadata)
    \/ visit_schema_double(MaxAllHandle, AllNames, AllFlags, AllMetadata)
    \/ visit_schema_short(MaxAllHandle, AllNames, AllFlags, AllMetadata)
    \/ visit_schema_byte(MaxAllHandle, AllNames, AllFlags, AllMetadata)
    \/ visit_schema_float(MaxAllHandle, AllNames, AllFlags, AllMetadata)
    \/ visit_schema_binary(MaxAllHandle, AllNames, AllFlags, AllMetadata)
    \/ visit_schema_date(MaxAllHandle, AllNames, AllFlags, AllMetadata)
    \/ visit_schema_timestamp(MaxAllHandle, AllNames, AllFlags, AllMetadata)
    \/ visit_schema_timestamp_ntz(MaxAllHandle, AllNames, AllFlags, AllMetadata)
    \/ visit_schema_decimal(MaxAllHandle, AllNames, AllPrecisions, AllScales, AllFlags,
                            AllMetadata)
    \/ visit_schema_struct(MaxAllHandle, AllNames, AllFlags, AllMetadata)
    \/ visit_schema_array(MaxAllHandle, AllNames, AllFlags, AllMetadata)
    \/ visit_schema_map(MaxAllHandle, AllNames, AllFlags, AllMetadata)
    \/ visit_schema_variant(MaxAllHandle, AllNames, AllFlags, AllMetadata)
    \/ create_primitive_type(MaxAllHandle, AllCodes)
    \/ create_decimal_type(MaxAllHandle, AllPrecisions, AllScales)
    \/ build_kernel_schema(MaxAllHandle)
    \/ extract_schema
    \/ Proceed

SpecAll == Init /\ [][NextAll]_vars

(***************************************************************************)
(* Properties.                                                             *)
(***************************************************************************)
LiveHandles == DOMAIN elements
IdsOf(l) == {l.ids[i] : i \in 1..Len(l.ids)}

LeafCalls ==
    {"visit_schema_string", "visit_schema_long", "visit_schema_integer",
     "visit_schema_boolean", "visit_schema_double", "visit_schema_short",
     "visit_schema_byte", "visit_schema_float", "visit_schema_binary",
     "visit_schema_date", "visit_schema_timestamp", "visit_schema_timestamp_ntz"}
ConstructionCalls ==
    {"visit_schema_struct", "visit_schema_array", "visit_schema_map",
     "visit_schema_variant"}
BareTypeCalls == {"create_primitive_type", "create_decimal_type"}
\* The calls that return a handle.
InsertingCalls ==
    LeafCalls \cup {"visit_schema_decimal"} \cup ConstructionCalls \cup BareTypeCalls
        \cup {"build_kernel_schema"}
\* The calls that take handles.
ConsumingCalls ==
    ConstructionCalls \cup {"build_kernel_schema", "unwrap_kernel_schema"}

\* C1 (take-once): the handles given to a successful construction, assembly or
\* extraction call are not live when it returns; a handle that was issued and
\* is no longer live never becomes live again, and every later call that
\* references it fails (an error, or None from extraction).
C1_TakeOnce ==
    [][ /\ (last'.call \in ConsumingCalls /\ last'.res.ok)
            => IdsOf(last') \cap DOMAIN elements' = {}
        /\ \A h \in issued \ LiveHandles :
            /\ h \notin DOMAIN elements'
            /\ h \in IdsOf(last') => ~last'.res.ok ]_vars

\* A handle consumed by a successful struct or assembly call (the element that
\* call produced is still live) was then given to extraction, which reported
\* absence.
C1_Witness ==
    /\ last.call = "unwrap_kernel_schema"
    /\ ~last.res.ok
    /\ \E r \in DOMAIN origin :
        /\ origin[r].call \in {"visit_schema_struct", "build_kernel_schema"}
        /\ last.ids[1] \in {origin[r].ids[i] : i \in 1..Len(origin[r].ids)}

\* C2 (handles are never reused): every successful call that inserts returns
\* a handle strictly greater than every handle issued before it, and a handle
\* that is no longer live does not become live again.
C2_NeverReused ==
    [][ /\ (last'.call \in InsertingCalls /\ last'.res.ok)
            => \A h \in issued : last'.res.val > h
        /\ \A h \in issued \ LiveHandles : h \notin DOMAIN elements' ]_vars

\* A leaf was inserted after an earlier handle had been consumed.
C2_Witness ==
    /\ last.call \in LeafCalls
    /\ last.res.ok
    /\ \E h \in issued : h < last.res.val /\ h \notin LiveHandles

\* The handle is live after the step and holds the element it held before.
Kept(h) == h \in DOMAIN elements' /\ elements'[h] = elements[h]

\* C3 (all-or-nothing struct build): when visit_schema_struct is given a list
\* in which exactly one handle is not a live Field handle, the call fails and
\* every other handle of the list is still live and holds the same field.
C3_StructAllOrNothing ==
    [][ (/\ last'.call = "visit_schema_struct"
         /\ last'.res # NameErr
         /\ Cardinality({i \in 1..Len(last'.ids) : ~IsField(last'.ids[i])}) = 1)
        => /\ ~last'.res.ok
           /\ \A h \in IdsOf(last') : IsField(h) => Kept(h) ]_vars

\* C4 (all-or-nothing assembly): when build_kernel_schema is given a list with
\* at least one handle that is not a live Field handle, the call fails, no
\* Schema element is inserted, and every live Field handle of the list is
\* still live and holds the same field.
C4_AssemblyAllOrNothing ==
    [][ (/\ last'.call = "build_kernel_schema"
         /\ \E h \in IdsOf(last') : ~IsField(h))
        => /\ ~last'.res.ok
           /\ next_id' = next_id
           /\ DOMAIN elements' \subseteq LiveHandles
           /\ \A h \in IdsOf(last') : IsField(h) => Kept(h) ]_vars

\* The live handle holds an element that is not struct-shaped for
\* visit_schema_variant: a Field, or a DataType that is not a Struct.
NotStructShaped(h) ==
    /\ h \in LiveHandles
    /\ \/ elements[h].kind = "Field"
       \/ elements[h].kind = "DataType" /\ elements[h].data_type.tag # "Struct"

\* The live handle holds a DataType or a Schema, not a Field.
NotAField(h) == h \in LiveHandles /\ elements[h].kind # "Field"

\* C5 (a kind mismatch does not consume): when a struct or assembly call fails
\* on a live handle that holds a DataType or a Schema, or a variant call fails
\* on a live handle that holds a Field or a non-struct DataType, that handle
\* is still live after the call and holds the same element.
C5_MismatchKeepsElement ==
    [][ (/\ ~last'.res.ok
         /\ last'.res # NameErr
         /\ \/ /\ last'.call \in {"visit_schema_struct", "build_kernel_schema"}
               /\ NotAField(last'.res.id)
            \/ /\ last'.call = "visit_schema_variant"
               /\ NotStructShaped(last'.res.id))
        => Kept(last'.res.id) ]_vars

\* C6 (all-or-nothing map build): when visit_schema_map is given two different
\* handles of which exactly one is live, the call fails, inserts no Field, and
\* the live handle is still live and holds the same element.
C6_MapAllOrNothing ==
    [][ (/\ last'.call = "visit_schema_map"
         /\ last'.res # NameErr
         /\ Cardinality(IdsOf(last') \cap LiveHandles) = 1
         /\ Cardinality(IdsOf(last')) = 2)
        => /\ ~last'.res.ok
           /\ next_id' = next_id
           /\ \A h \in IdsOf(last') \cap LiveHandles : Kept(h) ]_vars

\* C7 (a failing operation inserts nothing): a leaf, decimal, construction,
\* bare-type or assembly call that returns an error issues no handle and adds
\* no element to the arena.
C7_FailureInsertsNothing ==
    [][ (last'.call \in InsertingCalls /\ ~last'.res.ok)
        => /\ next_id' = next_id
           /\ issued' = issued
           /\ DOMAIN elements' \subseteq LiveHandles ]_vars

\* A struct call failed on a handle after it had taken an earlier child.
C7_Witness ==
    /\ last.call = "visit_schema_struct"
    /\ ~last.res.ok
    /\ last.res # NameErr
    /\ \E h \in IdsOf(last) : h \in issued /\ h \notin LiveHandles

\* C8 (order preservation): a successful visit_schema_struct yields a Field
\* whose struct type lists the fields of the child handles in the order the
\* handles were supplied, whatever the numeric order of the handles.
C8_OrderPreserved ==
    [][ (last'.call = "visit_schema_struct" /\ last'.res.ok)
        => /\ last'.res.val \in DOMAIN elements'
           /\ elements'[last'.res.val].kind = "Field"
           /\ elements'[last'.res.val].field.data_type =
                  DataType_Struct([i \in 1..Len(last'.ids) |->
                                      elements[last'.ids[i]].field]) ]_vars

\* A struct was built from two different fields, the later-inserted one first.
C8_Witness ==
    /\ last.call = "visit_schema_struct"
    /\ last.res.ok
    /\ last.ids = <<2, 1>>
    /\ LET fields == elements[last.res.val].field.data_type.fields
       IN  Len(fields) = 2 /\ fields[1] # fields[2]

Distinct(ids) == \A i, j \in 1..Len(ids) : ids[i] = ids[j] => i = j

\* Assembly of a list of live Field handles succeeds, and extraction of the
\* handle it returned yields one field per supplied handle, each with the
\* name, type and nullability of the field behind that handle, in the
\* supplied order. With distinctOnly, only lists without a repeated handle
\* are covered.
AssembleThenExtract(distinctOnly) ==
    /\ (/\ last'.call = "build_kernel_schema"
        /\ \A h \in IdsOf(last') : IsField(h)
        /\ distinctOnly => Distinct(last'.ids))
       => last'.res.ok
    /\ (/\ last'.call = "unwrap_kernel_schema"
        /\ last'.from.call = "build_kernel_schema")
       => /\ last'.res.ok
          /\ LET schema == last'.res.out[1]
                 supplied == last'.from.fields
             IN  /\ Len(schema) = Len(last'.from.ids)
                 /\ \A i \in 1..Len(schema) :
                     /\ schema[i].name = supplied[i][1].name
                     /\ schema[i].data_type = supplied[i][1].data_type
                     /\ schema[i].nullable = supplied[i][1].nullable

\* C9 as claimed: for any list of live Field handles, build_kernel_schema
\* succeeds and unwrap_kernel_schema on the returned handle yields exactly the
\* supplied root fields.
C9_AnyLiveList == [][AssembleThenExtract(FALSE)]_vars

\* C9 as amended: for any list of pairwise distinct live Field handles,
\* build_kernel_schema succeeds and unwrap_kernel_schema on the returned
\* handle yields exactly the supplied root fields, in the supplied order.
C9_DistinctLiveList == [][AssembleThenExtract(TRUE)]_vars

\* A schema assembled from two different fields was extracted.
C9_Witness ==
    /\ last.call = "unwrap_kernel_schema"
    /\ last.res.ok
    /\ last.from.call = "build_kernel_schema"
    /\ Len(last.from.ids) = 2
    /\ last.res.out[1][1] # last.res.out[1][2]

\* The primitive kind each leaf operation is for.
LeafKind(call) ==
    CASE call = "visit_schema_string" -> "String"
      [] call = "visit_schema_long" -> "Long"
      [] call = "visit_schema_integer" -> "Integer"
      [] call = "visit_schema_short" -> "Short"
      [] call = "visit_schema_byte" -> "Byte"
      [] call = "visit_schema_float" -> "Float"
      [] call = "visit_schema_double" -> "Double"
      [] call = "visit_schema_boolean" -> "Boolean"
      [] call = "visit_schema_binary" -> "Binary"
      [] call = "visit_schema_date" -> "Date"
      [] call = "visit_schema_timestamp" -> "Timestamp"
      [] call = "visit_schema_timestamp_ntz" -> "TimestampNtz"

\* The handle was returned by a leaf call and is still live.
IsLeafHandle(h) == h \in DOMAIN origin /\ origin[h].call \in LeafCalls

\* C10 (leaf round trip): a leaf call fails only for an invalid name; assembly
\* of the one handle a leaf call returned succeeds; and extraction of that
\* one-field schema yields exactly one field, with the name and nullability
\* given to the leaf call and the primitive kind of the leaf operation.
C10_LeafRoundTrip ==
    [][ /\ (last'.call \in LeafCalls /\ ~last'.res.ok) => last'.res = NameErr
        /\ (/\ last'.call = "build_kernel_schema"
            /\ Len(last'.ids) = 1
            /\ IsLeafHandle(last'.ids[1]))
           => last'.res.ok
        /\ (/\ last'.call = "unwrap_kernel_schema"
            /\ last'.from.call = "build_kernel_schema"
            /\ Len(last'.from.kids) = 1
            /\ last'.from.kids[1].call \in LeafCalls)
           => /\ last'.res.ok
              /\ LET schema == last'.res.out[1]
                     leaf == last'.from.kids[1]
                 IN  /\ Len(schema) = 1
                     /\ schema[1].name = leaf.name
                     /\ schema[1].data_type = Primitive(LeafKind(leaf.call))
                     /\ schema[1].nullable = leaf.nullable ]_vars

\* The one-field schema of a nullable TimestampNtz leaf named "b" was
\* extracted.
C10_Witness ==
    /\ last.call = "unwrap_kernel_schema"
    /\ last.res.ok
    /\ last.from.call = "build_kernel_schema"
    /\ Len(last.from.kids) = 1
    /\ last.from.kids[1].call = "visit_schema_timestamp_ntz"
    /\ last.from.kids[1].nullable
    /\ last.from.kids[1].name = "b"

\* The data type an element stands for when it is read as a type.
AsType(e) ==
    CASE e.kind = "DataType" -> e.data_type
      [] e.kind = "Field" -> e.field.data_type
      [] e.kind = "Schema" -> [tag |-> "Struct", fields |-> e.schema]

\* The field list an element stands for when it is read as a schema.
AsSchema(e) ==
    CASE e.kind = "Schema" -> e.schema
      [] e.kind = "Field" -> <<e.field>>
      [] e.kind = "DataType" -> e.data_type.fields

\* The element a direct recursive construction gives for the tree of calls
\* that produced a handle: every node is built from the values of its
\* children, without an arena.
RECURSIVE DirectElement(_)
DirectElement(t) ==
    LET Field(data_type) ==
            [kind |-> "Field",
             field |-> [name |-> t.name, data_type |-> data_type,
                        nullable |-> t.nullable, metadata |-> t.metadata]]
        Child(i) == DirectElement(t.kids[i])
    IN  CASE t.call \in LeafCalls ->
                 Field([tag |-> "Primitive", prim |-> LeafKind(t.call)])
          [] t.call = "visit_schema_decimal" ->
                 Field([tag |-> "Primitive", prim |-> "Decimal",
                        decimal |-> [precision |-> t.precision, scale |-> t.scale]])
          [] t.call = "create_primitive_type" ->
                 [kind |-> "DataType", data_type |-> PrimitiveOfCode(t.primitive_type)[1]]
          [] t.call = "create_decimal_type" ->
                 [kind |-> "DataType",
                  data_type |-> [tag |-> "Primitive", prim |-> "Decimal",
                                 decimal |-> [precision |-> t.precision,
                                              scale |-> t.scale]]]
          [] t.call = "visit_schema_struct" ->
                 Field([tag |-> "Struct",
                        fields |-> [i \in 1..Len(t.kids) |-> Child(i).field]])
          [] t.call = "visit_schema_array" ->
                 Field([tag |-> "Array",
                        array |-> [type_name |-> "array",
                                   element_type |-> AsType(Child(1)),
                                   contains_null |-> t.contains_null]])
          [] t.call = "visit_schema_map" ->
                 Field([tag |-> "Map",
                        map |-> [type_name |-> "map",
                                 key_type |-> AsType(Child(1)),
                                 value_type |-> AsType(Child(2)),
                                 value_contains_null |-> t.value_contains_null]])
          [] t.call = "visit_schema_variant" ->
                 Field([tag |-> "Variant", fields |-> AsSchema(Child(1))])
          [] t.call = "build_kernel_schema" ->
                 [kind |-> "Schema",
                  schema |-> [i \in 1..Len(t.kids) |-> Child(i).field]]

\* C11 (nesting is reconstructed exactly): the element behind every live
\* handle is the one a direct recursive construction of its tree of calls
\* gives, and a successful extraction returns the field list of the directly
\* constructed tree.
C11_NestingExact ==
    /\ \A h \in DOMAIN elements : elements[h] = DirectElement(origin[h])
    /\ (last.call = "unwrap_kernel_schema" /\ last.res.ok)
       => last.res.out[1] = AsSchema(DirectElement(last.from))

\* A schema was extracted whose root field is a struct that holds an array
\* of Double.
C11_Witness ==
    /\ last.call = "unwrap_kernel_schema"
    /\ last.res.ok
    /\ Len(last.res.out[1]) = 1
    /\ last.res.out[1][1].data_type.tag = "Struct"
    /\ LET inner == last.res.out[1][1].data_type.fields
       IN  /\ Len(inner) = 1
           /\ inner[1].data_type.tag = "Array"
           /\ inner[1].data_type.array.element_type = Primitive("Double")

(***************************************************************************)
(* SpecDecimal: the two decimal operations over precisions and scales on   *)
(* both sides of every limit of the legality rule.                         *)
(***************************************************************************)
\* SpecDecimal explores calls while at most MaxDecimalHandle - 1 handles were
\* issued.
MaxDecimalHandle == 2
DecimalNames == {OkName("a"), ErrName}
DecimalFlags == {FALSE}
DecimalMetadata == {NoMetadata}
\* precision: u8
DecimalPrecisions == {0, 10, 38, 39}
\* scale: i8
DecimalScales == {-1, 0, 10, 11}

NextDecimal ==
    \/ visit_schema_decimal(MaxDecimalHandle, DecimalNames, DecimalPrecisions,
                            DecimalScales, DecimalFlags, DecimalMetadata)
    \/ create_decimal_type(MaxDecimalHandle, DecimalPrecisions, DecimalScales)
    \/ extract_schema
    \/ Proceed

SpecDecimal == Init /\ [][NextDecimal]_vars

DecimalCalls == {"visit_schema_decimal", "create_decimal_type"}

\* The legal range of a decimal: a precision of 1 to 38 digits and a scale
\* from 0 to the precision.
LegalDecimal(precision, scale) ==
    /\ 1 <= precision
    /\ precision <= MaxDecimalPrecision
    /\ 0 <= scale
    /\ scale <= precision

\* C13 (decimal validation): a decimal call with a precision/scale pair
\* outside the legal range fails and inserts nothing; with a legal pair (and,
\* for the leaf, a valid name) it inserts a Decimal element that carries
\* exactly the precision and scale it was given: a Field for
\* visit_schema_decimal, a DataType for create_decimal_type.
C13_DecimalValidation ==
    [][ last'.call \in DecimalCalls =>
        IF LegalDecimal(last'.precision, last'.scale)
        THEN \/ last'.call = "visit_schema_decimal" /\ last'.res = NameErr
             \/ /\ last'.res.ok
                /\ last'.res.val \in DOMAIN elements'
                /\ LET e == elements'[last'.res.val]
                       data_type == IF last'.call = "visit_schema_decimal"
                                    THEN e.field.data_type ELSE e.data_type
                   IN  /\ e.kind = IF last'.call = "visit_schema_decimal"
                                   THEN "Field" ELSE "DataType"
                       /\ data_type.tag = "Primitive"
                       /\ data_type.prim = "Decimal"
                       /\ data_type.decimal.precision = last'.precision
                       /\ data_type.decimal.scale = last'.scale
        ELSE /\ ~last'.res.ok
             /\ next_id' = next_id
             /\ elements' = elements ]_vars

\* A decimal type with a negative scale was refused after a decimal leaf with
\* the largest precision had been inserted.
C13_Witness ==
    /\ last.call = "create_decimal_type"
    /\ last.scale < 0
    /\ LegalDecimal(last.precision, 0 - last.scale)
    /\ ~last.res.ok
    /\ \E h \in LiveHandles :
        /\ elements[h].kind = "Field"
        /\ elements[h].field.data_type.decimal.precision = 38

\* The live handle holds a struct-shaped element: a Schema, or a DataType that
\* is a Struct.
StructShaped(h) ==
    /\ h \in LiveHandles
    /\ \/ elements[h].kind = "Schema"
       \/ elements[h].kind = "DataType" /\ elements[h].data_type.tag = "Struct"

\* A visit_schema_variant call that fails inserts nothing, and one that
\* succeeds inserts a Field of Variant type. With validName, the call
\* succeeds exactly when its name is valid and its child handle holds a
\* struct-shaped element; without, exactly when the child handle does.
VariantAccepts(validName) ==
    last'.call = "visit_schema_variant" =>
        /\ last'.res.ok <=> /\ StructShaped(last'.ids[1])
                            /\ validName => last'.res # NameErr
        /\ ~last'.res.ok => /\ next_id' = next_id
                            /\ DOMAIN elements' \subseteq LiveHandles
        /\ last'.res.ok => /\ last'.res.val \in DOMAIN elements'
                           /\ elements'[last'.res.val].kind = "Field"
                           /\ elements'[last'.res.val].field.data_type.tag = "Variant"

\* C14 as claimed: visit_schema_variant succeeds exactly when its child handle
\* is live and holds a Schema or a DataType that is a Struct; otherwise it
\* fails and inserts no Field.
C14_VariantStructOnly == [][VariantAccepts(FALSE)]_vars

\* C14 as amended: visit_schema_variant succeeds exactly when its name is
\* valid and its child handle is live and holds a Schema or a DataType that
\* is a Struct; otherwise it fails and inserts no Field.
C14_VariantStructOnlyValidName == [][VariantAccepts(TRUE)]_vars

\* A variant was built from the handle of an assembled schema.
C14_Witness ==
    /\ last.call = "visit_schema_variant"
    /\ last.res.ok
    /\ origin[last.res.val].kids[1].call = "build_kernel_schema"

\* C15 (as-type coercion): a visit_schema_array or visit_schema_map call with
\* a valid name and live handles (two different ones for a map), whatever
\* kind of element they hold, succeeds and inserts a Field whose array or map
\* type has, for each handle, the type that handle stands for: the data type
\* of a Field, a DataType itself, the Struct of a Schema's fields.
C15_AsTypeCoercion ==
    [][ (/\ last'.call \in {"visit_schema_array", "visit_schema_map"}
         /\ last'.res # NameErr
         /\ IdsOf(last') \subseteq LiveHandles
         /\ Distinct(last'.ids))
        => /\ last'.res.ok
           /\ last'.res.val \in DOMAIN elements'
           /\ elements'[last'.res.val].kind = "Field"
           /\ LET data_type == elements'[last'.res.val].field.data_type
                  Given(i) == AsType(elements[last'.ids[i]])
              IN  IF last'.call = "visit_schema_array"
                  THEN /\ data_type.tag = "Array"
                       /\ data_type.array.element_type = Given(1)
                  ELSE /\ data_type.tag = "Map"
                       /\ data_type.map.key_type = Given(1)
                       /\ data_type.map.value_type = Given(2) ]_vars

\* An array was built whose element type is the Struct of an assembled
\* one-field schema.
C15_Witness ==
    /\ last.call = "visit_schema_array"
    /\ last.res.ok
    /\ origin[last.res.val].kids[1].call = "build_kernel_schema"
    /\ LET element_type == elements[last.res.val].field.data_type.array.element_type
       IN  element_type.tag = "Struct" /\ Len(element_type.fields) = 1

\* C16 (as-schema coercion at extraction): unwrap_kernel_schema returns the
\* schema of a Schema handle, a one-field schema holding the field of a Field
\* handle, the field list of a DataType handle that is a Struct, and None for
\* a handle that holds any other DataType or that is not live.
C16_AsSchemaCoercion ==
    [][ last'.call = "unwrap_kernel_schema" =>
        LET h == last'.ids[1] IN
        /\ last'.res.ok = (last'.res.out # << >>)
        /\ IF h \notin LiveHandles THEN last'.res.out = << >>
           ELSE CASE elements[h].kind = "Schema" ->
                         last'.res.out = <<elements[h].schema>>
                  [] elements[h].kind = "Field" ->
                         last'.res.out = << <<elements[h].field>> >>
                  [] elements[h].kind = "DataType" ->
                         IF elements[h].data_type.tag = "Struct"
                         THEN last'.res.out = <<elements[h].data_type.fields>>
                         ELSE last'.res.out = << >> ]_vars

\* The handle of a lone array Field was extracted as a one-field schema.
C16_Witness ==
    /\ last.call = "unwrap_kernel_schema"
    /\ last.res.ok
    /\ last.from.call = "visit_schema_array"
    /\ Len(last.res.out[1]) = 1
    /\ last.res.out[1][1].data_type.tag = "Array"

\* C17 (as-field restriction): a visit_schema_struct or build_kernel_schema
\* call succeeds only if every handle of its list is live and holds a Field;
\* a handle of the list that holds a bare DataType or a Schema makes the call
\* fail.
C17_AsFieldOnly ==
    [][ last'.call \in {"visit_schema_struct", "build_kernel_schema"} =>
        /\ last'.res.ok => \A h \in IdsOf(last') : IsField(h)
        /\ (\E h \in IdsOf(last') : NotAField(h)) => ~last'.res.ok ]_vars

\* A struct call with a valid name failed on a handle that held a Schema.
C17_Witness ==
    /\ last.call = "visit_schema_struct"
    /\ ~last.res.ok
    /\ last.res # NameErr
    /\ last.held = "Schema"

\* C18 (no extraction before assembly): while no build_kernel_schema call has
\* succeeded on the arena, an unwrap_kernel_schema call on any handle returns
\* no schema.
C18_NoExtractionBeforeAssembly ==
    [][ (last'.call = "unwrap_kernel_schema" /\ ~assembled)
        => /\ ~last'.res.ok
           /\ last'.res.out = << >> ]_vars

\* C19 (nothing after extraction): once an unwrap_kernel_schema call has
\* succeeded on the arena, every later leaf, decimal, construction, bare-type
\* and assembly call fails and inserts nothing.
C19_ExtractedIsTerminal ==
    [][ (last'.call \in InsertingCalls /\ extracted # {})
        => /\ ~last'.res.ok
           /\ next_id' = next_id
           /\ DOMAIN elements' \subseteq LiveHandles ]_vars

\* C20 (every returned handle is nonzero): starting from the default arena,
\* no successful leaf, decimal, struct, array, map, variant, bare-type or
\* assembly call returns handle 0, and no element is ever filed under 0.
C20_HandlesNonzero ==
    /\ 0 \notin issued
    /\ 0 \notin DOMAIN elements
    /\ (last.call \in InsertingCalls /\ last.res.ok) => last.res.val # 0

\* An assembly of one field, itself the first insertion into the arena,
\* returned its handle.
C20_Witness ==
    /\ last.call = "build_kernel_schema"
    /\ last.res.ok
    /\ last.ids = <<1>>
    /\ last.res.val \in issued

\* C12 (extraction happens at most once per handle): an unwrap_kernel_schema
\* call on a handle that an earlier successful unwrap_kernel_schema call has
\* taken reports absence (None), whatever calls were made in between.
C12_ExtractOnce ==
    [][ (last'.call = "unwrap_kernel_schema" /\ last'.ids[1] \in extracted)
        => /\ ~last'.res.ok
           /\ last'.res.out = << >> ]_vars

\* A handle was extracted, a later call inserted a newer element, and a second
\* extraction of the same handle reported absence.
C12_Witness ==
    /\ last.call = "unwrap_kernel_schema"
    /\ last.ids[1] \in extracted
    /\ ~last.res.ok
    /\ \E g \in LiveHandles : g > last.ids[1]

(***************************************************************************)
(* SpecCodes: create_primitive_type over every value of its u8 type code.  *)
(***************************************************************************)
\* SpecCodes explores calls while at most MaxCodeHandle - 1 handles were
\* issued.
MaxCodeHandle == 2
\* primitive_type: u8
TypeCodes == 0..255

NextCodes ==
    \/ create_primitive_type(MaxCodeHandle, TypeCodes)
    \/ extract_schema
    \/ Proceed

SpecCodes == Init /\ [][NextCodes]_vars

\* The primitive type code table: entry c + 1 is the kind of code c.
CodeTable ==
    <<"String", "Long", "Integer", "Short", "Byte", "Float", "Double", "Boolean",
      "Binary", "Date", "Timestamp", "TimestampNtz">>

\* C21 (primitive type codes): a create_primitive_type call succeeds exactly
\* for the codes 0 to 11, and then returns the handle of a new DataType
\* element of the primitive kind the table gives for the code; for every code
\* from 12 to 255 it fails and leaves the arena unchanged.
C21_PrimitiveTypeCodes ==
    [][ last'.call = "create_primitive_type" =>
        IF last'.res.ok
        THEN LET h == last'.res.val
                 code == origin'[h].primitive_type
             IN  /\ code \in 0..(Len(CodeTable) - 1)
                 /\ h \notin LiveHandles
                 /\ elements'[h] = [kind |-> "DataType",
                                    data_type |-> [tag |-> "Primitive",
                                                   prim |-> CodeTable[code + 1]]]
                 /\ \A g \in LiveHandles : Kept(g)
        ELSE /\ last'.res.id \in Len(CodeTable)..255
             /\ elements' = elements
             /\ next_id' = next_id ]_vars

\* Code 11 gave a TimestampNtz type.
C21_Witness ==
    /\ last.call = "create_primitive_type"
    /\ last.res.ok
    /\ origin[last.res.val].primitive_type = 11
    /\ elements[last.res.val].data_type.prim = "TimestampNtz"

(***************************************************************************)
(* SpecCross: two visitor states. The caller builds leaves in both and     *)
(* passes handles to the consuming operations of the first.                *)
(***************************************************************************)
\* SpecCross explores calls on each state while at most MaxCrossHandle - 1
\* handles were issued by it.
MaxCrossHandle == 2
CrossNames == {OkName("a"), OkName("b")}
CrossFlags == {FALSE}
CrossMetadata == {NoMetadata}

NextCross ==
    \/ visit_schema_string(MaxCrossHandle, {OkName("a")}, CrossFlags, CrossMetadata)
    \/ visit_schema_string_other(MaxCrossHandle, {OkName("b")}, CrossFlags, CrossMetadata)
    \/ visit_schema_struct(MaxCrossHandle, CrossNames, CrossFlags, CrossMetadata)
    \/ visit_schema_array(MaxCrossHandle, CrossNames, CrossFlags, CrossMetadata)
    \/ visit_schema_map(MaxCrossHandle, CrossNames, CrossFlags, CrossMetadata)
    \/ visit_schema_variant(MaxCrossHandle, CrossNames, CrossFlags, CrossMetadata)
    \/ build_kernel_schema(MaxCrossHandle)
    \/ extract_schema
    \/ Proceed

SpecCross == Init /\ [][NextCross]_vars

\* C22 (cross-arena handles are rejected): a construction, assembly or
\* extraction call on one visitor state that is given a handle the other
\* visitor state issued, and under which the other state holds an element,
\* fails.
C22_CrossArenaRejected ==
    [][ (/\ last'.call \in ConsumingCalls
         /\ \E h \in IdsOf(last') : h \in DOMAIN other.elements)
        => ~last'.res.ok ]_vars

\* The handles of the elements a tree of calls was built from, in the order
\* of the calls' arguments: the handles given to the call at its root, each
\* followed by the handles its own element was built from.
RECURSIVE Mentions(_)
Mentions(t) ==
    LET RECURSIVE From(_)
        From(i) == IF i > Len(t.ids) THEN << >>
                   ELSE <<t.ids[i]>> \o Mentions(t.kids[i]) \o From(i + 1)
    IN  IF "ids" \in DOMAIN t THEN From(1) ELSE << >>

\* Every element that is in a live element, as the element itself or as a
\* part of it: the live handles, each followed by the handles it was built
\* from.
RECURSIVE LiveParts(_)
LiveParts(roots) ==
    IF roots = {} THEN << >>
    ELSE LET r == CHOOSE x \in roots : \A y \in roots : x <= y
         IN  <<r>> \o Mentions(origin[r]) \o LiveParts(roots \ {r})

\* The elements that are in the schema the call that just returned has
\* extracted.
ExtractedParts ==
    IF last.call = "unwrap_kernel_schema" /\ last.res.ok
    THEN <<last.ids[1]>> \o Mentions(last.from)
    ELSE << >>

\* C23 (no sharing): no element occurs twice among the live elements and the
\* schema just extracted taken together, as a whole or as a part (so an
\* element that is a part of another is no longer live); every such element
\* was issued by the arena, and no extracted handle is live.
C23_NoSharing ==
    LET parts == LiveParts(DOMAIN origin) \o ExtractedParts
    IN  /\ DOMAIN origin = LiveHandles
        /\ Distinct(parts)
        /\ \A i \in 1..Len(parts) : parts[i] \in issued
        /\ extracted \cap LiveHandles = {}

\* A schema built from an element that was itself built from another was
\* extracted.
C23_Witness ==
    /\ last.call = "unwrap_kernel_schema"
    /\ last.res.ok
    /\ Len(ExtractedParts) = 3

\* C24 (ownership accounting): the handles issued so far are the handles
\* below next_id, and each of them is either live, with one element that no
\* step exchanges for another, or gone for good; an element leaves the arena
\* only in a step of a construction, assembly or extraction call that was
\* given its handle.
C24_OwnershipAccounting ==
    [][ /\ issued' = 1..(next_id' - 1)
        /\ DOMAIN elements' \subseteq issued'
        /\ \A h \in LiveHandles :
            \/ Kept(h)
            \/ /\ h \notin DOMAIN elements'
               /\ last'.call \in ConsumingCalls
               /\ h \in IdsOf(last')
        /\ \A h \in issued \ LiveHandles : h \notin DOMAIN elements' ]_vars

\* A map call took its two type handles out of the arena.
C24_Witness ==
    /\ last.call = "visit_schema_map"
    /\ last.res.ok
    /\ Cardinality(IdsOf(last)) = 2
    /\ IdsOf(last) \subseteq issued \ LiveHandles

\* Position i of the list does not resolve as a Field: its handle is not a
\* live Field handle, or an earlier position of the list has taken it.
Unresolvable(ids, i) ==
    \/ ~IsField(ids[i])
    \/ \E j \in 1..(i - 1) : ids[j] = ids[i]

\* C25 (the error identifies the offending handle): the error of a failed
\* struct or assembly call names the handle at the first position of the list
\* that does not resolve as a Field; the error of a failed array or variant
\* call names the handle it was given; the error of a failed map call names
\* the key handle when the key handle is not live (whatever the value handle
\* is), and the value handle otherwise.
C25_ErrorNamesOffendingHandle ==
    [][ (/\ last'.call \in ConstructionCalls \cup {"build_kernel_schema"}
         /\ ~last'.res.ok
         /\ last'.res # NameErr)
        => LET ids == last'.ids IN
           CASE last'.call \in {"visit_schema_struct", "build_kernel_schema"} ->
                    \E i \in 1..Len(ids) :
                        /\ Unresolvable(ids, i)
                        /\ \A j \in 1..(i - 1) : ~Unresolvable(ids, j)
                        /\ last'.res.id = ids[i]
                        /\ last'.res.msg = IF last'.call = "visit_schema_struct"
                                           THEN "Invalid field ID in struct"
                                           ELSE "Invalid field ID in schema"
             [] last'.call = "visit_schema_array" ->
                    /\ last'.res.id = ids[1]
                    /\ ids[1] \notin LiveHandles
             [] last'.call = "visit_schema_variant" ->
                    /\ last'.res.id = ids[1]
                    /\ ~StructShaped(ids[1])
             [] last'.call = "visit_schema_map" ->
                    IF ids[1] \notin LiveHandles
                    THEN /\ last'.res.id = ids[1]
                         /\ last'.res.msg = "Invalid key type ID for map"
                    ELSE /\ last'.res.id = ids[2]
                         /\ last'.res.msg = "Invalid value type ID for map"
                         /\ ids[2] \notin LiveHandles \/ ids[2] = ids[1] ]_vars

\* An assembly of two handles failed at the second, after it had taken the
\* first, and its error names the second.
C25_Witness ==
    /\ last.call = "build_kernel_schema"
    /\ ~last.res.ok
    /\ Len(last.ids) = 2
    /\ last.ids[1] # last.ids[2]
    /\ last.ids[1] \in issued \ LiveHandles
    /\ last.res.id = last.ids[2]

\* The operations that take a name.
NameTakingCalls == LeafCalls \cup {"visit_schema_decimal"} \cup ConstructionCalls

\* What every operation that takes a name returns for an invalid name in the
\* present arena, over every handle, handle list, precision and scale.
InvalidNameOutcomes ==
    LET name == ErrName
        flags == BOOLEAN
        md == MetadataInputs
    IN  {visit_schema_string_impl(State, name, n, m) : n \in flags, m \in md}
        \cup {visit_schema_long_impl(State, name, n, m) : n \in flags, m \in md}
        \cup {visit_schema_integer_impl(State, name, n, m) : n \in flags, m \in md}
        \cup {visit_schema_boolean_impl(State, name, n, m) : n \in flags, m \in md}
        \cup {visit_schema_double_impl(State, name, n, m) : n \in flags, m \in md}
        \cup {visit_schema_short_impl(State, name, n, m) : n \in flags, m \in md}
        \cup {visit_schema_byte_impl(State, name, n, m) : n \in flags, m \in md}
        \cup {visit_schema_float_impl(State, name, n, m) : n \in flags, m \in md}
        \cup {visit_schema_binary_impl(State, name, n, m) : n \in flags, m \in md}
        \cup {visit_schema_date_impl(State, name, n, m) : n \in flags, m \in md}
        \cup {visit_schema_timestamp_impl(State, name, n, m) : n \in flags, m \in md}
        \cup {visit_schema_timestamp_ntz_impl(State, name, n, m) : n \in flags, m \in md}
        \cup {visit_schema_decimal_impl(State, name, p, s, n, m) :
                  p \in {0, 10, 39}, s \in {-1, 0, 11}, n \in flags, m \in md}
        \cup {visit_schema_struct_impl(State, name, l, n, m) :
                  l \in IdLists, n \in flags, m \in md}
        \cup {visit_schema_array_impl(State, name, e, c, n, m) :
                  e \in HandleInputs, c \in flags, n \in flags, m \in md}
        \cup {visit_schema_map_impl(State, name, k, v, c, n, m) :
                  k \in HandleInputs, v \in HandleInputs, c \in flags, n \in flags,
                  m \in md}
        \cup {visit_schema_variant_impl(State, name, v, n, m) :
                  v \in HandleInputs, n \in flags, m \in md}

\* C26 (a name-encoding failure leaves the arena unchanged): in every arena
\* the session reaches, every operation that takes a name fails on an invalid
\* name with the name's error and gives back the arena as it was, whatever
\* its other arguments are; and a call that returned the name's error took no
\* handle and inserted no element.
C26_InvalidNameLeavesArena ==
    [][ /\ InvalidNameOutcomes = {[st |-> State, res |-> NameErr]}
        /\ last'.res = NameErr
           => /\ last'.call \in NameTakingCalls
              /\ elements' = elements
              /\ next_id' = next_id
              /\ \A h \in LiveHandles : Kept(h) ]_vars

\* A construction call with an invalid name was given a live handle, and the
\* handle is still live.
C26_Witness ==
    /\ last.call \in ConstructionCalls
    /\ last.res = NameErr
    /\ \E h \in IdsOf(last) : h \in LiveHandles

\* C27 (a failed extraction leaves the arena unchanged): when
\* unwrap_kernel_schema returns None for a live handle that holds a DataType
\* that is not a Struct, the handle is still live afterwards and holds the
\* same type, so that a later array or map call can take it.
C27_FailedExtractionKeepsHandle ==
    [][ (/\ last'.call = "unwrap_kernel_schema"
         /\ ~last'.res.ok
         /\ last'.ids[1] \in LiveHandles
         /\ elements[last'.ids[1]].kind = "DataType"
         /\ elements[last'.ids[1]].data_type.tag # "Struct")
        => Kept(last'.ids[1]) ]_vars

\* C28 (every bare DataType of the arena is a Primitive): after every step
\* each DataType element of the arena is a Primitive type; a visit_schema_variant
\* call succeeds only on a handle that holds a Schema and that
\* build_kernel_schema returned; and a successful extraction is never the
\* extraction of a DataType handle.
C28_BareTypesArePrimitive ==
    [][ /\ \A h \in DOMAIN elements' :
               elements'[h].kind = "DataType" => elements'[h].data_type.tag = "Primitive"
        /\ (last'.call = "visit_schema_variant" /\ last'.res.ok)
           => /\ last'.ids[1] \in LiveHandles
              /\ elements[last'.ids[1]].kind = "Schema"
              /\ origin[last'.ids[1]].call = "build_kernel_schema"
        /\ (last'.call = "unwrap_kernel_schema" /\ last'.res.ok)
           => /\ last'.ids[1] \in LiveHandles
              /\ elements[last'.ids[1]].kind \in {"Schema", "Field"} ]_vars

\* A variant field was made of an assembled schema.
C28_Witness ==
    /\ last.call = "visit_schema_variant"
    /\ last.res.ok
    /\ origin[last.res.val].kids[1].call = "build_kernel_schema"
    /\ elements[last.res.val].field.data_type.tag = "Variant"

(***************************************************************************)
(* SpecScale: the decimal operations over every negative scale of an i8,   *)
(* with the precisions at the ends of the u8 range, of the legal range and *)
(* of the range the reinterpreted scales fall in.                          *)
(***************************************************************************)
\* SpecScale explores calls while at most MaxScaleHandle - 1 handles were issued.
MaxScaleHandle == 2
ScaleNames == {OkName("a"), ErrName}
ScaleFlags == {FALSE}
ScaleMetadata == {NoMetadata}
\* precision: u8
ScalePrecisions == {0, 38, 39, 128, 255}
\* scale: i8, every negative value and zero
ScaleScales == (-128)..0

NextScale ==
    \/ visit_schema_decimal(MaxScaleHandle, ScaleNames, ScalePrecisions, ScaleScales, ScaleFlags, ScaleMetadata)
    \/ create_decimal_type(MaxScaleHandle, ScalePrecisions, ScaleScales)
    \/ Proceed

SpecScale == Init /\ [][NextScale]_vars

\* Over every precision of a u8 and every negative scale of an i8, the scale
\* reinterpreted as a u8 is 128 or more and the decimal type is refused.
NegativeScaleRefused ==
    \A precision \in 0..255, scale \in (-128)..(-1) :
        /\ AsU8(scale) \in 128..255
        /\ DecimalType_try_new(precision, AsU8(scale)) = << >>

NamesLiveHandleTwice(ids) ==
    \E i, j \in 1..Len(ids) : i < j /\ ids[i] = ids[j] /\ ids[i] \in LiveHandles

\* C30 (one handle used twice in a single call): a visit_schema_struct or
\* build_kernel_schema call whose list holds the same live handle twice, and a
\* visit_schema_map call whose key and value are the same live handle, return
\* an error and insert no element; and no element of the arena was built from
\* a handle list that holds a handle twice.
C30_HandleTwiceFails ==
    [][ /\ (/\ last'.call \in {"visit_schema_struct", "build_kernel_schema", "visit_schema_map"}
            /\ NamesLiveHandleTwice(last'.ids))
           => /\ ~last'.res.ok
              /\ DOMAIN elements' \subseteq DOMAIN elements
              /\ next_id' = next_id
        /\ \A h \in DOMAIN origin' :
               "ids" \in DOMAIN origin'[h] => Distinct(origin'[h].ids) ]_vars

\* A struct call with a valid name was given a live Field handle twice: it
\* failed at the second position, on the handle it had taken at the first.
C30_Witness ==
    /\ last.call = "visit_schema_struct"
    /\ Len(last.ids) = 2
    /\ last.ids[1] = last.ids[2]
    /\ ~last.res.ok
    /\ last.res # NameErr
    /\ last.held = "Field"
    /\ last.res.id = last.ids[2]
    /\ last.ids[1] \notin LiveHandles

\* The number of child handles the call of l was given: none for a leaf or a
\* bare type, one for an array or a variant, two for a map, the length of the
\* list for a struct or an assembly.
ChildCount(l) ==
    CASE l.call \in {"visit_schema_array", "visit_schema_variant"} -> 1
      [] l.call = "visit_schema_map" -> 2
      [] l.call \in {"visit_schema_struct", "build_kernel_schema"} -> Len(l.ids)
      [] OTHER -> 0

\* C31 (live-element accounting on success): a successful operation that
\* returns a handle was given k different live child handles, removes exactly
\* those from the live set and adds exactly one handle that was not live, so
\* the number of live elements changes by 1 - k; a successful extraction
\* removes exactly the handle it was given, a change of -1.
C31_LiveAccounting ==
    [][ /\ (last'.call \in InsertingCalls /\ last'.res.ok)
           => LET k == ChildCount(last') IN
              /\ Len(last'.ids) = k
              /\ Cardinality(IdsOf(last')) = k
              /\ IdsOf(last') \subseteq LiveHandles
              /\ last'.res.val \notin LiveHandles
              /\ DOMAIN elements' = (LiveHandles \ IdsOf(last')) \cup {last'.res.val}
              /\ Cardinality(DOMAIN elements') = Cardinality(LiveHandles) + 1 - k
        /\ (last'.call = "unwrap_kernel_schema" /\ last'.res.ok)
           => /\ last'.ids[1] \in LiveHandles
              /\ DOMAIN elements' = LiveHandles \ {last'.ids[1]}
              /\ Cardinality(DOMAIN elements') = Cardinality(LiveHandles) - 1 ]_vars

\* A map was made of two live handles: two elements fewer, one more.
C31_Witness ==
    /\ last.call = "visit_schema_map"
    /\ last.res.ok
    /\ last.ids[1] # last.ids[2]
    /\ IdsOf(last) \subseteq issued \ LiveHandles
    /\ LiveHandles = {last.res.val}

\* C32 (leaf and bare-type operations leave existing elements untouched):
\* after a primitive leaf, decimal leaf, create_primitive_type or
\* create_decimal_type call, successful or not, every handle that was live is
\* still live and holds the same element, and the only handle that can be new
\* is the one the call returned.
C32_LeafFrame ==
    [][ last'.call \in LeafCalls \cup {"visit_schema_decimal"} \cup BareTypeCalls
        => /\ \A h \in LiveHandles : Kept(h)
           /\ DOMAIN elements' \ LiveHandles
                  = IF last'.res.ok THEN {last'.res.val} ELSE {} ]_vars

\* A leaf or bare-type call succeeded in an arena that held another element.
C32_Witness ==
    /\ last.call \in LeafCalls \cup {"visit_schema_decimal"} \cup BareTypeCalls
    /\ last.res.ok
    /\ LiveHandles \ {last.res.val} # {}

\* C33 (extraction removes only the handle it is given): after
\* unwrap_kernel_schema(h), whatever it returned, every live handle other
\* than h is still live and holds the same element, and no handle is new.
C33_ExtractionFrame ==
    [][ last'.call = "unwrap_kernel_schema"
        => /\ \A g \in LiveHandles \ {last'.ids[1]} : Kept(g)
           /\ DOMAIN elements' = LiveHandles \ {last'.ids[1]}
           /\ next_id' = next_id ]_vars

\* A schema was extracted from an arena that held a field and a bare type no
\* call had consumed; both are still there.
C33_Witness ==
    /\ last.call = "unwrap_kernel_schema"
    /\ last.res.ok
    /\ last.from.call = "build_kernel_schema"
    /\ \E f, t \in LiveHandles :
           /\ elements[f].kind = "Field"
           /\ elements[t].kind = "DataType"

\* The call of this step returned a new handle beside the handles that were
\* live, all of which are kept.
InsertedBeside ==
    /\ last'.res.ok
    /\ last'.res.val \notin LiveHandles
    /\ DOMAIN elements' = LiveHandles \cup {last'.res.val}
    /\ \A h \in LiveHandles : Kept(h)

\* What an empty child list does. In the arena of this step,
\* visit_schema_struct with no child handles succeeds for each of the names
\* and build_kernel_schema with no root handles succeeds; a step that is such
\* a call consumes nothing and inserts a Field whose type is a struct without
\* fields, respectively a Schema without fields; and the extraction of a
\* handle that such an assembly returned yields a schema with zero fields.
\* With validName the struct calls are those with a valid name, without they
\* are all struct calls.
EmptyListAccepts(validName) ==
    LET names == IF validName THEN {OkName(s) : s \in Names} ELSE NameInputs IN
    /\ \A name \in names, nullable \in BOOLEAN, metadata \in MetadataInputs :
           visit_schema_struct_impl(State, name, << >>, nullable, metadata).res.ok
    /\ build_kernel_schema_impl(State, << >>).res.ok
    /\ (/\ last'.call = "visit_schema_struct"
        /\ last'.ids = << >>
        /\ validName => last'.res # NameErr)
       => /\ InsertedBeside
          /\ elements'[last'.res.val].kind = "Field"
          /\ elements'[last'.res.val].field.data_type = [tag |-> "Struct", fields |-> << >>]
    /\ (last'.call = "build_kernel_schema" /\ last'.ids = << >>)
       => /\ InsertedBeside
          /\ elements'[last'.res.val] = [kind |-> "Schema", schema |-> << >>]
    /\ (/\ last'.call = "unwrap_kernel_schema"
        /\ last'.from.call = "build_kernel_schema"
        /\ last'.from.ids = << >>)
       => /\ last'.res.ok
          /\ last'.res.out = << << >> >>

\* C34 as claimed: visit_schema_struct with zero child handles and
\* build_kernel_schema with zero root handles succeed in every arena state,
\* consume nothing and insert a Field with an empty struct type, respectively
\* an empty Schema, whose extraction yields a schema with zero fields.
C34_EmptyListAccepted == [][EmptyListAccepts(FALSE)]_vars

\* C34 (empty child lists are accepted), for struct calls with a valid name:
\* visit_schema_struct with a valid name and zero child handles and
\* build_kernel_schema with zero root handles succeed in every arena state,
\* consume nothing and insert a Field with an empty struct type, respectively
\* an empty Schema; the extraction of that Schema yields a schema with zero
\* fields.
C34_EmptyListAcceptedValidName == [][EmptyListAccepts(TRUE)]_vars

\* The schema assembled from no handles was extracted, with zero fields, from
\* an arena that also holds a struct field made of no handles.
C34_Witness ==
    /\ last.call = "unwrap_kernel_schema"
    /\ last.from.call = "build_kernel_schema"
    /\ last.from.ids = << >>
    /\ last.res.out = << << >> >>
    /\ \E h \in LiveHandles :
           /\ origin[h].call = "visit_schema_struct"
           /\ origin[h].ids = << >>
           /\ elements[h].field.data_type = [tag |-> "Struct", fields |-> << >>]

====
